---- MODULE Spec2Model ----
(***************************************************************************)
(* Verification model of the PdmVPages reporting scripts.                  *)
(*                                                                         *)
(* Each component of the repository is modelled by its own group of        *)
(* variables and its own specification:                                    *)
(*   SpecConn   run_3_data/connection_wrapper.py  ConnectionWrapper        *)
(***************************************************************************)
EXTENDS Integers, Sequences, FiniteSets, TLC

None == "None"

\* self.connection = None (connection identities are 1, 2, ...)
NoConnection == 0

(***************************************************************************)
(* Bounds of the model                                                     *)
(***************************************************************************)
MaxCalls == 3
MaxDasCalls == 4
MaxOutputs == 3
MaxInputs == 2
MaxDictReads == 2
MaxChildren == 2
MaxItems == 2
MaxAsks == 2

(***************************************************************************)
(* State                                                                   *)
(***************************************************************************)
VARIABLES
    \* ---- ConnectionWrapper (connection_wrapper.py) ----
    keep_open,      \* self.keep_open
    certAvailable,  \* whether USERCRT/USERKEY or X509_USER_PROXY are set
    connection,     \* self.connection: NoConnection or the identity of the connection object
    connCreated,    \* number of HTTPSConnection objects created so far
    connClosed,     \* identities of the connections on which close() was called
    apiPc,          \* position inside api(): "idle" or "loop"
    attempt,        \* number of completed iterations of the retry loop
    attempts,       \* request attempts made by the current (or last) call
    lastOutcome,    \* outcome of the last request attempt
    apiReturn,      \* what the last finished call returned
    errorLogged,    \* the last finished call logged 'failed after %d attempts'
    data,           \* the data argument: 0 (None), else the nesting of json.dumps
    calls,          \* number of api calls started
    \* ---- memoized DAS lookups (rereco_ul/make_json.py, run_3_data/make_json.py) ----
    dasScript,        \* which script runs: "rereco_ul" or "run_3_data"
    das_events_cache, \* das_events_cache: dataset name -> events
    das_runs_cache,   \* das_runs_cache: dataset name -> set of runs
    dasQueries,       \* external queries issued, per <<function, dataset>>
    dasAnswered,      \* external queries that succeeded, per <<function, dataset>>
    dasLast,          \* the last lookup: function, dataset, returned value, queried or not
    dasCrashed,       \* an exception left the lookup and ended the script
    dasCalls,         \* number of lookups made
    \* ---- dataset tree of rereco_ul/make_json.py ----
    statsOutputs,   \* Stats2: the output datasets of each workflow, with their type
    statsInputs,    \* Stats2: <<dataset, workflow>> when the workflow takes the dataset as input
    wfKind,         \* processing string and request type of the second workflow
    aod_workflows,  \* the tree built for the RAW dataset (empty before the report ran)
    treeBuilt,      \* the report has built the tree
    \* ---- RAWDataset / ChildDataset objects (schemas/dataset.py) ----
    output,         \* self.output of every object: the list of its children
    dictNode,       \* the object whose dict property was read last, None before
    dictResult,     \* the value the property gave
    dictReads,      \* number of times a dict property was read
    \* ---- original table (make_json_original_table.py of rereco_ul and rereco_ul_run3) ----
    tableScript,    \* which script runs: "rereco_ul" or "rereco_ul_run3"
    tableItem,      \* the item of data.json and the datasets picked from its outputs
    tableRow,       \* the row made of it, an empty record before
    tableState,     \* "start", "row" once the row is appended, "KeyError" if the script died
    \* ---- PageMetadata and DatasetMetadata (schemas/dataset.py) ----
    yearsJson,      \* PageMetadata.metadata: the content of data/years.json
    campaignOf,     \* the dataset name whose campaign was asked last, EmptyName before
    campaignResult, \* what campaign() gave: a tag, or the exception that left it
    \* ---- das_scan_children (utils/das.py) ----
    scanDataset,    \* the dataset whose children were scanned last, EmptyName before
    scanNextTier,   \* the next_tier argument of that call
    dasChildren,    \* what the 'child dataset=' query gave, as list(set(...)) ordered it
    scanResult,     \* the list of ChildDataset objects returned
    \* ---- the loop over the AOD items of a RAW dataset (rereco_ul/make_json.py) ----
    raw_dataset,    \* the RAW dataset of the iteration
    dcs_runs,       \* the DCS json of its year: run -> lumi ranges
    raw_runs,       \* das_get_runs(raw_dataset)
    dasDown,        \* the DAS queries of this execution give nothing
    das_events_of_runs_cache,
    itemWorkflow,   \* get_workflow(aod_item['workflow']) of the item handled last
    aod_item,       \* the fields the loop body wrote to that item
    itemsDone,      \* how many AOD items were handled
    scriptRaised,   \* the exception that ended the script, "" while it runs
    \* ---- get_dataset_steps (run_3_data/make_json.py) ----
    year_dict,      \* year_info['campaigns']: data tier -> campaign -> processing strings
    dasListing,     \* what DAS knows of a dataset: listed, status, nfiles
    dasDescending,  \* DAS lists the names of a query in descending order
    stepsResult,    \* what get_dataset_steps returned
    stepsDone,      \* get_dataset_info has run
    \* ---- callers of das_get_events_of_runs ----
    dasFailing,     \* the way the DAS queries of run lists fail in this execution
    evAsked,        \* the runs given to the last call, as the caller listed them
    evReturn,       \* what that call returned
    evQueries,      \* the run lists DAS was asked for during that call
    evCacheBefore,  \* das_events_of_runs_cache when that call began
    evAsks          \* the number of calls

connVars == <<keep_open, certAvailable, connection, connCreated, connClosed,
              apiPc, attempt, attempts, lastOutcome, apiReturn, errorLogged,
              data, calls>>

dasVars == <<dasScript, das_events_cache, das_runs_cache, dasQueries,
             dasAnswered, dasLast, dasCrashed, dasCalls>>

treeVars == <<statsOutputs, statsInputs, wfKind, aod_workflows, treeBuilt>>

schemaVars == <<output, dictNode, dictResult, dictReads>>

tableVars == <<tableScript, tableItem, tableRow, tableState>>

pageVars == <<yearsJson, campaignOf, campaignResult>>

scanVars == <<scanDataset, scanNextTier, dasChildren, scanResult>>

itemVars == <<raw_dataset, dcs_runs, raw_runs, dasDown, das_events_of_runs_cache,
              itemWorkflow, aod_item, itemsDone, scriptRaised>>

stepVars == <<year_dict, dasListing, dasDescending, stepsResult, stepsDone>>

runsVars == <<dasFailing, evAsked, evReturn, evQueries, evCacheBefore, evAsks>>

vars == <<connVars, dasVars, treeVars, schemaVars, tableVars, pageVars, scanVars, itemVars,
          stepVars, runsVars>>

\* the variables of the other components, which a component leaves alone
nonConnVars ==
    <<dasVars, treeVars, schemaVars, tableVars, pageVars, scanVars, itemVars, stepVars, runsVars>>
nonDasVars ==
    <<connVars, treeVars, schemaVars, tableVars, pageVars, scanVars, itemVars, stepVars, runsVars>>
nonTreeVars ==
    <<connVars, dasVars, schemaVars, tableVars, pageVars, scanVars, itemVars, stepVars, runsVars>>
nonSchemaVars ==
    <<connVars, dasVars, treeVars, tableVars, pageVars, scanVars, itemVars, stepVars, runsVars>>
nonTableVars ==
    <<connVars, dasVars, treeVars, schemaVars, pageVars, scanVars, itemVars, stepVars, runsVars>>
nonPageVars ==
    <<connVars, dasVars, treeVars, schemaVars, tableVars, scanVars, itemVars, stepVars, runsVars>>
nonScanVars ==
    <<connVars, dasVars, treeVars, schemaVars, tableVars, pageVars, itemVars, stepVars, runsVars>>
nonItemVars ==
    <<connVars, dasVars, treeVars, schemaVars, tableVars, pageVars, scanVars, stepVars, runsVars>>
nonStepVars ==
    <<connVars, dasVars, treeVars, schemaVars, tableVars, pageVars, scanVars, itemVars, runsVars>>
nonRunsVars ==
    <<connVars, dasVars, treeVars, schemaVars, tableVars, pageVars, scanVars, itemVars, stepVars>>

(***************************************************************************)
(* ConnectionWrapper                                                       *)
(***************************************************************************)
connection_attemptsOneMore == 3 + 1
connection_attempts == 3

Outcomes == {"raise", "non200", "ok"}

\* api(), line 56: 'if not self.connection'
NeedsConnectionAlways(conn) == TRUE
NeedsConnection(conn) == conn = NoConnection

\* api(): entry, up to the start of the retry loop.  init_connection raises
\* when no certificate is configured, and the exception leaves api().
ApiBegin(d) ==
    /\ apiPc = "idle"
    /\ calls < MaxCalls
    /\ calls' = calls + 1
    /\ attempt' = 0
    /\ attempts' = 0
    /\ lastOutcome' = None
    /\ errorLogged' = FALSE
    /\ data' = d
    /\ IF NeedsConnection(connection)
         THEN IF certAvailable
                THEN /\ connection' = connCreated + 1
                     /\ connCreated' = connCreated + 1
                     /\ apiPc' = "loop"
                     /\ apiReturn' = "pending"
                ELSE /\ apiPc' = "idle"
                     /\ apiReturn' = "raised"
                     /\ UNCHANGED <<connection, connCreated>>
         ELSE /\ apiPc' = "loop"
              /\ apiReturn' = "pending"
              /\ UNCHANGED <<connection, connCreated>>
    /\ UNCHANGED <<keep_open, certAvailable, connClosed>>
    /\ UNCHANGED nonConnVars

\* One iteration of the retry loop.  "raise" stands for an exception anywhere
\* in the try body (request, getresponse or read), "non200" for the branch
\* that returns None, "ok" for the branch that returns the body.
ApiAttempt(outcome) ==
    /\ apiPc = "loop"
    /\ attempt < connection_attempts
    /\ attempts' = attempts + 1
    /\ lastOutcome' = outcome
    /\ data' = IF data # 0 THEN data + 1 ELSE 0
    /\ CASE outcome = "raise" ->
              /\ connection' = connCreated + 1
              /\ connCreated' = connCreated + 1
              /\ attempt' = attempt + 1
              /\ UNCHANGED <<apiPc, apiReturn, connClosed>>
         [] outcome = "non200" ->
              /\ apiReturn' = None
              /\ apiPc' = "idle"
              /\ UNCHANGED <<connection, connCreated, connClosed, attempt>>
         [] outcome = "ok" ->
              /\ apiReturn' = "body"
              /\ apiPc' = "idle"
              /\ IF ~keep_open
                   THEN /\ connClosed' = connClosed \cup {connection}
                        /\ connection' = NoConnection
                   ELSE UNCHANGED <<connection, connClosed>>
              /\ UNCHANGED <<connCreated, attempt>>
    /\ UNCHANGED <<keep_open, certAvailable, errorLogged, calls>>
    /\ UNCHANGED nonConnVars

\* The loop is exhausted: log the failure and return None.
ApiGiveUp ==
    /\ apiPc = "loop"
    /\ attempt = connection_attempts
    /\ errorLogged' = TRUE
    /\ apiReturn' = None
    /\ apiPc' = "idle"
    /\ UNCHANGED <<keep_open, certAvailable, connection, connCreated, connClosed,
                   attempt, attempts, lastOutcome, data, calls>>
    /\ UNCHANGED nonConnVars

ConnNext ==
    \/ \E d \in {0, 1} : ApiBegin(d)
    \/ \E o \in Outcomes : ApiAttempt(o)
    \/ ApiGiveUp

(***************************************************************************)
(* Memoized DAS lookups: das_get_events, das_get_runs                      *)
(*                                                                         *)
(* A dataset name is the sequence of its '/'-separated components, the     *)
(* middle one the sequence of its '-'-separated parts, and the empty name  *)
(* the empty sequence.  The external query either fails                    *)
(* (its output cannot be parsed) or answers a value, which may differ from *)
(* one query to the next.                                                  *)
(***************************************************************************)
EmptyName == <<>>
RawName == <<"JetHT", <<"Run2016F", "v1">>, "RAW">>
AodName == <<"JetHT", <<"Run2016F", "21Feb2020_UL2016", "v1">>, "AOD">>
DasNames == {EmptyName, RawName, AodName}

\* what the external query gives: a parsable value or not
EventAnswers == [ok : BOOLEAN, value : {0, 7}]
RunAnswers == [ok : BOOLEAN, value : {{}, {278769}}]

\* dict with key k set to v
Put(dict, k, v) == [x \in DOMAIN dict \cup {k} |-> IF x = k THEN v ELSE dict[x]]

\* 'if dataset in das_events_cache'
InCacheTruthy(cache, dataset) == dataset \in DOMAIN cache /\ cache[dataset] # 0
InCache(cache, dataset) == dataset \in DOMAIN cache

\* das_get_events(dataset); answer is what the external query gives if issued.
\* rereco_ul lets the parse error escape, run_3_data catches it and returns 0.
das_get_events(dataset, answer) ==
    /\ ~dasCrashed
    /\ dasCalls < MaxDasCalls
    /\ dasCalls' = dasCalls + 1
    /\ IF dataset = EmptyName
         THEN /\ dasLast' = [fn |-> "events", dataset |-> dataset, ret |-> 0, queried |-> FALSE]
              /\ UNCHANGED <<das_events_cache, dasQueries, dasAnswered, dasCrashed>>
         ELSE IF InCache(das_events_cache, dataset)
         THEN /\ dasLast' = [fn |-> "events", dataset |-> dataset,
                             ret |-> das_events_cache[dataset], queried |-> FALSE]
              /\ UNCHANGED <<das_events_cache, dasQueries, dasAnswered, dasCrashed>>
         ELSE /\ dasQueries' = [dasQueries EXCEPT ![<<"events", dataset>>] = @ + 1]
              /\ IF ~answer.ok
                   THEN /\ dasCrashed' = (dasScript = "rereco_ul")
                        /\ dasLast' = [fn |-> "events", dataset |-> dataset,
                                       ret |-> 0,
                                       queried |-> TRUE]
                        /\ UNCHANGED <<das_events_cache, dasAnswered>>
                   ELSE /\ das_events_cache' = Put(das_events_cache, dataset, answer.value)
                        /\ dasAnswered' = [dasAnswered EXCEPT ![<<"events", dataset>>] = @ + 1]
                        /\ dasLast' = [fn |-> "events", dataset |-> dataset,
                                       ret |-> answer.value, queried |-> TRUE]
                        /\ UNCHANGED dasCrashed
    /\ UNCHANGED <<dasScript, das_runs_cache>>
    /\ UNCHANGED nonDasVars

\* das_get_runs(dataset)
das_get_runs(dataset, answer) ==
    /\ ~dasCrashed
    /\ dasCalls < MaxDasCalls
    /\ dasCalls' = dasCalls + 1
    /\ IF dataset = EmptyName
         THEN /\ dasLast' = [fn |-> "runs", dataset |-> dataset, ret |-> {}, queried |-> FALSE]
              /\ UNCHANGED <<das_runs_cache, dasQueries, dasAnswered, dasCrashed>>
         ELSE IF dataset \in DOMAIN das_runs_cache
         THEN /\ dasLast' = [fn |-> "runs", dataset |-> dataset,
                             ret |-> das_runs_cache[dataset], queried |-> FALSE]
              /\ UNCHANGED <<das_runs_cache, dasQueries, dasAnswered, dasCrashed>>
         ELSE /\ dasQueries' = [dasQueries EXCEPT ![<<"runs", dataset>>] = @ + 1]
              /\ IF ~answer.ok
                   THEN /\ dasCrashed' = (dasScript = "rereco_ul")
                        /\ dasLast' = [fn |-> "runs", dataset |-> dataset,
                                       ret |-> {},
                                       queried |-> TRUE]
                        /\ UNCHANGED <<das_runs_cache, dasAnswered>>
                   ELSE /\ das_runs_cache' = Put(das_runs_cache, dataset, answer.value)
                        /\ dasAnswered' = [dasAnswered EXCEPT ![<<"runs", dataset>>] = @ + 1]
                        /\ dasLast' = [fn |-> "runs", dataset |-> dataset,
                                       ret |-> answer.value, queried |-> TRUE]
                        /\ UNCHANGED dasCrashed
    /\ UNCHANGED <<dasScript, das_events_cache>>
    /\ UNCHANGED nonDasVars

DasNext ==
    \/ \E d \in DasNames, a \in EventAnswers : das_get_events(d, a)
    \/ \E d \in DasNames, a \in RunAnswers : das_get_runs(d, a)


(***************************************************************************)
(* Dataset tree: get_prepid_and_dataset (rereco_ul and run_3_data)         *)
(*                                                                         *)
(* Stats2 is a snapshot chosen at the start: which datasets each workflow  *)
(* lists as output (and their type) and which workflows take a dataset as  *)
(* input.  Nothing keeps these relations acyclic.  Dicts are iterated in   *)
(* the order TreeNames / Workflows.                                        *)
(***************************************************************************)
AodResubName == <<"JetHT", <<"Run2016F", "DQMresub_21Feb2020_UL2016", "v1">>, "AOD">>
MiniName == <<"JetHT", <<"Run2016F", "UL2016_MiniAODv2", "v2">>, "MINIAOD">>
NanoName == <<"JetHT", <<"Run2016F", "UL2016_MiniAODv2_NanoAODv9", "v1">>, "NANOAOD">>
TreeNames == <<AodName, AodResubName, MiniName, NanoName>>
Workflows == <<"w1", "w2">>
DatasetTypes == {"VALID", "INVALID"}

Range(seq) == {seq[i] : i \in DOMAIN seq}
Last(seq) == seq[Len(seq)]

\* <<part, word>>: the text 'word' occurs in 'part' (the vocabulary of the model)
Occurs == {<<"DQMresub_21Feb2020_UL2016", "DQMresub">>,
           <<"Run2016F", "2016F">>, <<"Run2016F", "Run2016F">>,
           <<"AOD", "AOD">>, <<"MINIAOD", "AOD">>, <<"NANOAOD", "AOD">>,
           <<"21Feb2020_UL2016", "21Feb2020_UL2016">>,
           <<"21Feb2020_UL2016_HIPM", "21Feb2020_UL2016">>,
           <<"21Feb2020_UL2016_HIPM", "21Feb2020_UL2016_HIPM">>,
           <<"21Feb2020_UL2016_HIPM", "HIPM">>,
           <<"DQMresub_21Feb2020_UL2016", "21Feb2020_UL2016">>}

\* the last component ends with 'AOD'
EndsWithAOD(part) == part \in {"AOD", "MINIAOD", "NANOAOD"}

\* fullmatch of '/.*/.*<word>.*/.*AOD' on a three-component name: the word
\* has to stand between the second and the third '/'
dataset_blacklist == <<"DQMresub", "EcalRecovery", "WMass">>
campaign_blacklist == <<"NanoAODv6">>

DatasetPatternMatches(word, dataset_name) ==
    /\ Len(dataset_name) = 3
    /\ \E part \in Range(dataset_name[2]) : <<part, word>> \in Occurs
    /\ EndsWithAOD(dataset_name[3])

NothingBlacklisted(dataset_name) == FALSE
is_dataset_in_blacklist(dataset_name) ==
    \E i \in DOMAIN dataset_blacklist :
        DatasetPatternMatches(dataset_blacklist[i], dataset_name)

is_campaign_in_blacklist(campaign) ==
    \E i \in DOMAIN campaign_blacklist : campaign = campaign_blacklist[i]

\* years['2016']['campaigns']: per data tier the campaigns, in order, with their tags
YearCampaigns ==
    [AOD |-> << [name |-> "AOD",
                 tags |-> {"21Feb2020_UL2016", "21Feb2020_UL2016_HIPM",
                           "21Feb2020_UL2016_HIPM_rsb", "21Feb2020_ver2_UL2016_HIPM",
                           "21Feb2020_ver1_UL2016_HIPM"}] >>,
     MINIAOD |-> << [name |-> "MiniAODv1",
                     tags |-> {"21Feb2020_UL2016", "21Feb2020_UL2016_HIPM",
                               "21Feb2020_UL2016_HIPM_rsb", "21Feb2020_ver2_UL2016_HIPM",
                               "21Feb2020_ver1_UL2016_HIPM"}],
                    [name |-> "MiniAODv2",
                     tags |-> {"UL2016_MiniAODv2", "HIPM_UL2016_MiniAODv2",
                               "ver1_HIPM_UL2016_MiniAODv2", "ver2_HIPM_UL2016_MiniAODv2"}] >>,
     NANOAOD |-> << [name |-> "NanoAODv6",
                     tags |-> {"Nano02Dec2019", "Nano02Dec2019_21Feb2020_UL2016",
                               "Nano02Dec2019_21Feb2020_UL2016_HIPM"}],
                    [name |-> "NanoAODv8",
                     tags |-> {"UL2016_MiniAODv1_NanoAODv2", "HIPM_UL2016_MiniAODv1_NanoAODv2",
                               "ver1_HIPM_UL2016_MiniAODv1_NanoAODv2",
                               "ver2_HIPM_UL2016_MiniAODv1_NanoAODv2"}],
                    [name |-> "NanoAODv9",
                     tags |-> {"UL2016_MiniAODv2_NanoAODv9", "HIPM_UL2016_MiniAODv2_NanoAODv9",
                               "ver1_HIPM_UL2016_MiniAODv2_NanoAODv9",
                               "ver2_HIPM_UL2016_MiniAODv2_NanoAODv9"}] >>]

\* the campaign lookup of get_prepid_and_dataset: the first campaign of the
\* tier that lists the processing string, '<other>' when none does
RECURSIVE FirstCampaign(_, _)
FirstCampaign(campaigns, processing_string) ==
    IF campaigns = <<>> THEN "<other>"
    ELSE IF processing_string \in Head(campaigns).tags THEN Head(campaigns).name
    ELSE FirstCampaign(Tail(campaigns), processing_string)

\* the kinds of workflow the second workflow may be
WorkflowKinds ==
    {[ProcessingString |-> "21Feb2020_UL2016_HIPM", RequestType |-> "ReReco"],
     [ProcessingString |-> "Nano02Dec2019", RequestType |-> "ReReco"],
     [ProcessingString |-> "UL2016_MiniAODv2", RequestType |-> "Resubmission"]}

\* the Stats2 document of a workflow; Datasets is the last entry of its
\* EventNumberHistory, as the sequence of its items
RECURSIVE DatasetsOf(_, _)
DatasetsOf(w, names) ==
    IF names = <<>> THEN <<>>
    ELSE LET recs == {r \in statsOutputs : r.workflow = w /\ r.dataset = Head(names)}
         IN  (IF recs = {} THEN <<>>
              ELSE << [name |-> Head(names), Type |-> (CHOOSE r \in recs : TRUE).Type] >>)
             \o DatasetsOf(w, Tail(names))

Workflow(w) ==
    [RequestName |-> w,
     PrepID |-> IF w = "w1" THEN "ReReco-Run2016F-JetHT-00001"
                ELSE "ReReco-Run2016F-JetHT-00002",
     ProcessingString |-> IF w = "w1" THEN "21Feb2020_UL2016" ELSE wfKind.ProcessingString,
     RequestType |-> IF w = "w1" THEN "ReReco" ELSE wfKind.RequestType,
     Datasets |-> DatasetsOf(w, TreeNames)]

\* get_workflows_for_input
RECURSIVE WorkflowsTaking(_, _)
WorkflowsTaking(input_dataset, ws) ==
    IF ws = <<>> THEN <<>>
    ELSE (IF /\ <<input_dataset, Head(ws)>> \in statsInputs
             /\ Workflow(Head(ws)).RequestType \notin {"Resubmission", "DQMHarvest"}
          THEN << Workflow(Head(ws)) >> ELSE <<>>)
         \o WorkflowsTaking(input_dataset, Tail(ws))

get_workflows_for_input(input_dataset) == WorkflowsTaking(input_dataset, Workflows)

\* what DAS holds for a dataset (das_get_runs, das_get_events)
CatalogRuns(dataset_name) == IF dataset_name[3] = "NANOAOD" THEN {278769} ELSE {278769, 278801}
CatalogEvents(dataset_name) == IF dataset_name[3] = "NANOAOD" THEN 5 ELSE 7

\* 'if ds_datatier == datatiers[0]'
TierIsAny(dataset_name, datatiers) == TRUE
TierIsFirst(dataset_name, datatiers) == Last(dataset_name) = datatiers[1]

\* 'for res in results: if res['dataset'] == dataset_name: break'
AlreadySeen(results, dataset_name) ==
    \E i \in DOMAIN results : results[i].dataset = dataset_name

RECURSIVE get_prepid_and_dataset(_, _)
RECURSIVE ScanWorkflows(_, _, _)
RECURSIVE ScanDatasets(_, _, _, _)

\* the inner loop: the datasets of one workflow, results being the list so far
ScanDatasets(workflow, datasets, datatiers, results) ==
    IF datasets = <<>> THEN results
    ELSE
      LET dataset_name == Head(datasets).name
          info == Head(datasets)
          rest == Tail(datasets)
          ds_datatier == Last(dataset_name)
          processing_string == workflow.ProcessingString
          campaign == FirstCampaign(YearCampaigns[ds_datatier], processing_string)
      IN  IF ~(info.Type \in {"PRODUCTION", "VALID"}) THEN
              ScanDatasets(workflow, rest, datatiers, results)
          ELSE IF ~TierIsFirst(dataset_name, datatiers) THEN
              ScanDatasets(workflow, rest, datatiers, results)
          ELSE IF AlreadySeen(results, dataset_name) THEN
              ScanDatasets(workflow, rest, datatiers, results)
          ELSE IF is_dataset_in_blacklist(dataset_name) THEN
              ScanDatasets(workflow, rest, datatiers, results)
          ELSE IF is_campaign_in_blacklist(campaign) THEN
              ScanDatasets(workflow, rest, datatiers, results)
          ELSE
              LET item == [dataset |-> dataset_name,
                           campaign |-> campaign,
                           type |-> info.Type,
                           prepid |-> workflow.PrepID,
                           runs |-> CatalogRuns(dataset_name),
                           events |-> CatalogEvents(dataset_name),
                           output |-> get_prepid_and_dataset(<<workflow>>, Tail(datatiers))
                                      \o get_prepid_and_dataset(
                                             get_workflows_for_input(dataset_name),
                                             Tail(datatiers)),
                           workflow |-> workflow.RequestName,
                           processing_string |-> processing_string]
              IN  ScanDatasets(workflow, rest, datatiers, Append(results, item))

\* the outer loop over the workflows
ScanWorkflows(workflows, datatiers, results) ==
    IF workflows = <<>> THEN results
    ELSE ScanWorkflows(Tail(workflows), datatiers,
                       ScanDatasets(Head(workflows), Head(workflows).Datasets,
                                    datatiers, results))

get_prepid_and_dataset(workflows, datatiers) ==
    IF datatiers = <<>> THEN <<>>
    ELSE ScanWorkflows(workflows, datatiers, <<>>)

\* the workflows of the RAW dataset whose processing string holds an AOD tag
RECURSIVE WithAodTag(_)
WithAodTag(workflows) ==
    IF workflows = <<>> THEN <<>>
    ELSE (IF \E tag \in YearCampaigns.AOD[1].tags :
                 <<Head(workflows).ProcessingString, tag>> \in Occurs
          THEN << Head(workflows) >> ELSE <<>>)
         \o WithAodTag(Tail(workflows))

AllOutputs == {[workflow |-> w, dataset |-> n, Type |-> t] :
                   w \in Range(Workflows), n \in Range(TreeNames), t \in DatasetTypes}
AllInputs == (Range(TreeNames) \cup {RawName}) \X Range(Workflows)

\* the main loop of the script for the RAW dataset, up to the tree
BuildTree ==
    /\ ~treeBuilt
    /\ treeBuilt' = TRUE
    /\ aod_workflows' = get_prepid_and_dataset(
                            WithAodTag(get_workflows_for_input(RawName)),
                            <<"AOD", "MINIAOD", "NANOAOD">>)
    /\ UNCHANGED <<statsOutputs, statsInputs, wfKind>>
    /\ UNCHANGED nonTreeVars

TreeNext == BuildTree

(***************************************************************************)
(* RAWDataset and ChildDataset: the dict property                          *)
(*                                                                         *)
(* The objects are those of tests/schemas/dataset.py.  A child is attached *)
(* to one parent at most, in any order.                                    *)
(***************************************************************************)
RawObject == "raw_dataset"
ChildObjects == {"aod_dataset", "miniaod_dataset_1", "miniaod_dataset_2", "nanoaod_dataset"}
Objects == ChildObjects \cup {RawObject}

\* metadata.full_name (dataset for the RAW object)
FullName ==
    [raw_dataset |-> "/BTagCSV/Run2016B-v1/RAW",
     aod_dataset |-> "/BTagCSV/Run2016B-21Feb2020_ver1_UL2016_HIPM-v1/AOD",
     miniaod_dataset_1 |-> "/BTagCSV/Run2016B-ver1_HIPM_UL2016_MiniAODv2-v1/MINIAOD",
     miniaod_dataset_2 |-> "/Charmonium/Run2016B-ver1_HIPM_UL2016_MiniAODv2-v1/MINIAOD",
     nanoaod_dataset |-> "/BTagCSV/Run2016E-HIPM_UL2016_MiniAODv2_NanoAODv9-v2/NANOAOD"]

\* the full names in ascending order of Python's string comparison
NamesAscending ==
    << "/BTagCSV/Run2016B-21Feb2020_ver1_UL2016_HIPM-v1/AOD",
       "/BTagCSV/Run2016B-v1/RAW",
       "/BTagCSV/Run2016B-ver1_HIPM_UL2016_MiniAODv2-v1/MINIAOD",
       "/BTagCSV/Run2016E-HIPM_UL2016_MiniAODv2_NanoAODv9-v2/NANOAOD",
       "/Charmonium/Run2016B-ver1_HIPM_UL2016_MiniAODv2-v1/MINIAOD" >>

NameRank(name) == CHOOSE i \in DOMAIN NamesAscending : NamesAscending[i] = name

\* the remaining attributes of the objects
ObjectEvents ==
    [raw_dataset |-> 0, aod_dataset |-> 1, miniaod_dataset_1 |-> 2,
     miniaod_dataset_2 |-> 2, nanoaod_dataset |-> 3]
ObjectTier ==
    [raw_dataset |-> "RAW", aod_dataset |-> "AOD", miniaod_dataset_1 |-> "MINIAOD",
     miniaod_dataset_2 |-> "MINIAOD", nanoaod_dataset |-> "NANOAOD"]
ObjectCampaign ==
    [raw_dataset |-> "", aod_dataset |-> "AOD", miniaod_dataset_1 |-> "MiniAODv2",
     miniaod_dataset_2 |-> "MiniAODv2", nanoaod_dataset |-> "MiniAODv2 NanoAODv9"]
ObjectProcessingString ==
    [raw_dataset |-> "", aod_dataset |-> "21Feb2020_ver1_UL2016_HIPM",
     miniaod_dataset_1 |-> "ver1_HIPM_UL2016_MiniAODv2",
     miniaod_dataset_2 |-> "ver1_HIPM_UL2016_MiniAODv2",
     nanoaod_dataset |-> "HIPM_UL2016_MiniAODv2_NanoAODv9"]
ObjectEra ==
    [raw_dataset |-> "Run2016B", aod_dataset |-> "Run2016B", miniaod_dataset_1 |-> "Run2016B",
     miniaod_dataset_2 |-> "Run2016B", nanoaod_dataset |-> "Run2016E"]

\* sorted(self.output, key=lambda cd: cd.metadata.full_name): a stable sort
RECURSIVE InsertByFullName(_, _)
InsertByFullName(sorted, cd) ==
    IF sorted = <<>> THEN << cd >>
    ELSE IF NameRank(FullName[cd]) < NameRank(FullName[Head(sorted)])
         THEN << cd >> \o sorted
         ELSE << Head(sorted) >> \o InsertByFullName(Tail(sorted), cd)

RECURSIVE SortedFrom(_, _)
SortedFrom(done, todo) ==
    IF todo = <<>> THEN done
    ELSE SortedFrom(InsertByFullName(done, Head(todo)), Tail(todo))

AsGiven(children) == children
SortedByFullName(children) == SortedFrom(<<>>, children)

\* ChildDataset.dict and RAWDataset.dict
RECURSIVE ChildDict(_)
ChildDict(cd) ==
    LET sorted == SortedByFullName(output[cd])
    IN  [dataset |-> FullName[cd],
         events |-> ObjectEvents[cd],
         runs |-> <<>>,
         type |-> "VALID",
         campaign |-> ObjectCampaign[cd],
         processing_string |-> ObjectProcessingString[cd],
         datatier |-> ObjectTier[cd],
         era |-> ObjectEra[cd],
         prepid |-> None,
         workflow |-> None,
         output |-> [i \in DOMAIN sorted |-> ChildDict(sorted[i])]]

RawDict ==
    LET sorted == SortedByFullName(output[RawObject])
    IN  [dataset |-> FullName[RawObject],
         events |-> ObjectEvents[RawObject],
         year |-> 2016,
         runs |-> <<>>,
         output |-> [i \in DOMAIN sorted |-> ChildDict(sorted[i])],
         twiki_runs |-> <<>>]

\* the objects below an object
RECURSIVE Below(_)
Below(obj) ==
    Range(output[obj]) \cup UNION {Below(c) : c \in Range(output[obj])}

HasParent(cd) == \E o \in Objects : cd \in Range(output[o])

\* parent.output gets one more child
Attach(parent, cd) ==
    /\ cd \in ChildObjects
    /\ cd # parent
    /\ ~HasParent(cd)
    /\ parent \notin Below(cd)
    /\ output' = [output EXCEPT ![parent] = Append(@, cd)]
    /\ UNCHANGED <<dictNode, dictResult, dictReads>>
    /\ UNCHANGED nonSchemaVars

\* reading obj.dict: gives the dict and leaves the output lists of the object
\* and of everything below it sorted
ReadDict(obj) ==
    /\ dictReads < MaxDictReads
    /\ dictReads' = dictReads + 1
    /\ dictNode' = obj
    /\ dictResult' = IF obj = RawObject THEN RawDict ELSE ChildDict(obj)
    /\ output' = [o \in Objects |->
                    IF o = obj \/ o \in Below(obj)
                      THEN SortedByFullName(output[o]) ELSE output[o]]
    /\ UNCHANGED nonSchemaVars

SchemaNext ==
    \/ \E parent \in Objects, cd \in ChildObjects : Attach(parent, cd)
    \/ \E obj \in Objects : ReadDict(obj)

(***************************************************************************)
(* Original table: one row per RAW dataset and picked AOD dataset          *)
(*                                                                         *)
(* tableItem holds what the script reads of data.json: the RAW item and    *)
(* the AOD, MiniAOD and NanoAOD datasets that pick_output_item gave, each  *)
(* {} when none was picked.  A missing key reads as the default of .get(). *)
(***************************************************************************)
TableRuns == {277932, 278769}
Raw2017Name == <<"JetHT", <<"Run2017B", "v1">>, "RAW">>

exception_2016F_twiki_runs == {278769, 278801, 278802, 278803, 278804, 278805, 278808}

\* exception_2016F_twiki.get(raw_dataset, [])
exception_2016F_twiki(dataset) ==
    IF dataset = RawName THEN exception_2016F_twiki_runs ELSE {}

\* 'word in text' for a dataset name: the word occurs in a part of it
InName(word, dataset_name) ==
    \E part \in Range(dataset_name[2]) : <<part, word>> \in Occurs

\* the picked datasets: present or {}, their runs and events
Picked(runs, events) == [present |-> TRUE, runs |-> runs, events |-> events]
NotPicked == [present |-> FALSE, runs |-> {}, events |-> 0]

TableItems ==
    { [dataset |-> c[1],
       processing_string |-> c[2],
       twiki_runs |-> tw,
       runs |-> rr,
       events |-> 10,
       whitelist_runs |-> wl,
       raw_x_dcs_runs |-> rd,
       aod |-> IF depth >= 1 THEN Picked(ar, 7) ELSE NotPicked,
       miniaod |-> IF depth >= 2 THEN Picked(mr, 7) ELSE NotPicked,
       nanoaod |-> IF depth >= 3 THEN Picked(nr, 5) ELSE NotPicked] :
        c \in {<<RawName, "21Feb2020_UL2016">>, <<RawName, "21Feb2020_UL2016_HIPM">>,
               <<Raw2017Name, "09Aug2019_UL2017">>},
        tw \in SUBSET TableRuns, rr \in {{277932}, TableRuns},
        wl \in SUBSET TableRuns, rd \in SUBSET TableRuns,
        ar \in SUBSET TableRuns, mr \in SUBSET TableRuns, nr \in {{}, {277932}},
        depth \in 0..3 }

\* lines 77-80: the TWiki runs of the row
twiki_runs(script, item) ==
    IF /\ script = "rereco_ul"
       /\ InName("2016F", item.dataset)
       /\ <<item.processing_string, "HIPM">> \notin Occurs
    THEN exception_2016F_twiki(item.dataset)
    ELSE item.twiki_runs

\* aod.get('whitelist_runs', []) / aod.get('whitelist_x_raw_runs', [])
whitelist_runs(item) == IF item.aod.present THEN item.whitelist_runs ELSE {}
\* aod.get('raw_x_dcs_runs', [])
raw_x_dcs_runs(item) == IF item.aod.present THEN item.raw_x_dcs_runs ELSE {}

\* len(a - b)
LenOfDifferenceSwapped(a, b) == Cardinality(b \ a)
LenOfDifference(a, b) == Cardinality(a \ b)

\* the loop over (prefix, thing, parent): the '_vs_parent_' fields of one
\* prefix; 'compared' tells that the three fields are numbers and not None
VsParent(script, item, thing, parent, parentIsWhitelist) ==
    LET runs == thing.runs
        none == [runs |-> Cardinality(runs), events |-> thing.events,
                 missing_runs |-> None, surplus_runs |-> None, runs_diff |-> None,
                 compared |-> FALSE]
    IN  IF ~parentIsWhitelist /\ parent.present THEN
            [runs |-> Cardinality(runs), events |-> thing.events,
             missing_runs |-> LenOfDifference(parent.runs, runs),
             surplus_runs |-> LenOfDifference(runs, parent.runs),
             runs_diff |-> LenOfDifference(parent.runs, runs)
                           + LenOfDifference(runs, parent.runs),
             compared |-> TRUE]
        ELSE IF thing.present THEN
            [runs |-> Cardinality(runs), events |-> thing.events,
             missing_runs |-> LenOfDifference(whitelist_runs(item), runs),
             surplus_runs |-> LenOfDifference(runs, whitelist_runs(item)),
             runs_diff |-> LenOfDifference(whitelist_runs(item), runs)
                           + LenOfDifference(runs, whitelist_runs(item)),
             compared |-> TRUE]
        ELSE none

\* the parent of the AOD dataset: None in rereco_ul, the RAW item in rereco_ul_run3
RawAsParent(item) == [present |-> TRUE, runs |-> item.runs, events |-> item.events]

\* the row of the table
result(script, item) ==
    [input_dataset |-> item.dataset,
     twiki_runs |-> Cardinality(twiki_runs(script, item)),
     raw_runs |-> Cardinality(item.runs),
     raw_x_dcs_runs |-> Cardinality(raw_x_dcs_runs(item)),
     whitelist_runs |-> Cardinality(whitelist_runs(item)),
     twiki_and_whitelist_missing_runs |->
         LenOfDifference(whitelist_runs(item), twiki_runs(script, item)),
     twiki_and_whitelist_surplus_runs |->
         LenOfDifference(twiki_runs(script, item), whitelist_runs(item)),
     twiki_and_whitelist_runs_diff |->
         LenOfDifference(whitelist_runs(item), twiki_runs(script, item))
         + LenOfDifference(twiki_runs(script, item), whitelist_runs(item)),
     whitelist_and_raw_x_dcs_missing_runs |->
         LenOfDifference(raw_x_dcs_runs(item), whitelist_runs(item)),
     whitelist_and_raw_x_dcs_surplus_runs |->
         LenOfDifference(whitelist_runs(item), raw_x_dcs_runs(item)),
     whitelist_and_raw_x_dcs_runs |->
         LenOfDifference(raw_x_dcs_runs(item), whitelist_runs(item))
         + LenOfDifference(whitelist_runs(item), raw_x_dcs_runs(item)),
     aod |-> IF script = "rereco_ul"
               THEN VsParent(script, item, item.aod, NotPicked, TRUE)
               ELSE VsParent(script, item, item.aod, RawAsParent(item), FALSE),
     miniaod |-> VsParent(script, item, item.miniaod, item.aod, FALSE),
     nanoaod |-> VsParent(script, item, item.nanoaod, item.miniaod, FALSE)]

\* one pass of the loop body for a picked AOD dataset; aod['processing_string']
\* of rereco_ul raises KeyError when no AOD dataset was picked
MakeRow ==
    /\ tableState = "start"
    /\ IF /\ tableScript = "rereco_ul"
          /\ InName("2016F", tableItem.dataset)
          /\ ~tableItem.aod.present
         THEN /\ tableState' = "KeyError"
              /\ UNCHANGED tableRow
         ELSE /\ tableState' = "row"
              /\ tableRow' = result(tableScript, tableItem)
    /\ UNCHANGED <<tableScript, tableItem>>
    /\ UNCHANGED nonTableVars

TableNext == MakeRow

(***************************************************************************)
(* DatasetMetadata: the attributes parsed from a dataset name              *)
(*                                                                         *)
(* The regular expressions are modelled on the parts of the name: \w* is   *)
(* a part without '-' and '/', the era, version and sub-version patterns   *)
(* are tables over the vocabulary of the model.                            *)
(***************************************************************************)
Unset == "<no attribute>"

\* Run[0-9]{4}[A-Z], and era[3:-1]
YearOfEra == [Run2022C |-> "2022", Run2023D |-> "2023", Run2016F |-> "2016",
              Run2017B |-> "2017"]
IsEra(part) == part \in DOMAIN YearOfEra

\* v[0-9]{1,2}
IsVersion(part) == part \in {"v1", "v2", "v3", "v11"}

\* [A-Z]*
IsUpperCase(part) == part \in {"", "RAW", "AOD", "MINIAOD", "NANOAOD", "USER", "DQMIO"}

\* SUBVERSION_REGEX on a processing string: (filtered_ps, version) or nothing
Subversions ==
    [PromptNanoAODv11_v1 |-> <<"PromptNanoAODv11", "v1">>,
     PromptNanoAODv11_v2 |-> <<"PromptNanoAODv11", "v2">>,
     ReReco_v1 |-> <<"ReReco", "v1">>]

\* DatasetMetadata(name): __init__ and __build
DatasetMetadata(name) ==
    LET blank == [full_name |-> name, primary_dataset |-> "", era |-> "",
                  year |-> Unset, processing_string |-> "", filtered_ps |-> "",
                  version |-> "", datatier |-> "", valid |-> FALSE]
    IN  IF Len(name) # 3 THEN blank
        ELSE IF /\ Len(name[2]) = 2
                /\ IsEra(name[2][1])
                /\ IsVersion(name[2][2])
                /\ name[3] = "RAW"
        THEN \* __build_raw
             [blank EXCEPT !.primary_dataset = name[1], !.era = name[2][1],
                           !.year = YearOfEra[name[2][1]], !.version = name[2][2],
                           !.datatier = name[3], !.valid = TRUE]
        ELSE IF /\ Len(name[2]) = 3
                /\ IsEra(name[2][1])
                /\ IsVersion(name[2][3])
                /\ IsUpperCase(name[3])
        THEN \* __build_non_raw, then __check_ps
             LET ps == name[2][2]
                 parsed == [blank EXCEPT !.primary_dataset = name[1], !.era = name[2][1],
                                         !.year = YearOfEra[name[2][1]],
                                         !.processing_string = ps,
                                         !.version = name[2][3],
                                         !.datatier = name[3], !.valid = TRUE]
             IN  IF ps \in DOMAIN Subversions
                   THEN [parsed EXCEPT !.filtered_ps = Subversions[ps][1],
                                       !.version = Subversions[ps][2]]
                   ELSE parsed
        ELSE blank

(***************************************************************************)
(* PageMetadata: the campaign of a dataset                                 *)
(***************************************************************************)
\* the dataset names whose campaign is asked
PageNames ==
    { <<"BTagMu", <<"Run2022C", "v1">>, "RAW">>,
      <<"BTagMu", <<"Run2022C", "PromptReco", "v1">>, "AOD">>,
      <<"BTagMu", <<"Run2023D", "PromptReco", "v1">>, "AOD">>,
      <<"BTagMu", <<"Run2022C", "PromptNanoAODv11", "v1">>, "NANOAOD">>,
      <<"BTagMu", <<"Run2022C", "PromptNanoAODv11_v1", "v2">>, "NANOAOD">>,
      <<"BTagMu", <<"Run2022C", "ReReco_v1", "v2">>, "NANOAOD">>,
      \* names that fail both regular expressions
      <<"BTagMu", <<"Run2022C", "Prompt", "Reco", "v1">>, "AOD">>,
      <<"BTagMu", <<"Run2022", "PromptReco", "v1">>, "AOD">>,
      <<"BTagMu", <<"Run2022C", "PromptReco", "v1">>>> }

\* the campaign lists a data tier may have in years.json
CampaignLists ==
    { <<>>,
      << [campaign |-> "Prompt", processing_string |-> <<"PromptReco">>] >>,
      << [campaign |-> "NanoAODv11", processing_string |-> <<"PromptNanoAODv11">>] >>,
      << [campaign |-> "NanoAODv11", processing_string |-> <<"PromptNanoAODv11", "ReReco_v1">>],
         [campaign |-> "NanoAODv12", processing_string |-> <<"PromptNanoAODv11">>] >> }

\* the contents years.json may have: a year with or without the era
YearsFiles ==
    { [y \in {"2022"} |-> [era |-> [e \in eras |-> [AOD |-> a, NANOAOD |-> n]]]] :
        eras \in {{}, {"Run2022C"}}, a \in CampaignLists, n \in CampaignLists }

\* __parsed_content: the dict of one data tier, processing string -> campaign,
\* a later campaign replacing an earlier one
RECURSIVE ReducedPs(_, _)
ReducedPs(campaign_content, reduced_ps) ==
    IF campaign_content = <<>> THEN reduced_ps
    ELSE LET campaign_match == Head(campaign_content)
             tags == Range(campaign_match.processing_string)
         IN  ReducedPs(Tail(campaign_content),
                       [ps \in DOMAIN reduced_ps \cup tags |->
                            IF ps \in tags THEN campaign_match.campaign
                            ELSE reduced_ps[ps]])

transformed(file) ==
    [year \in DOMAIN file |->
        [era |-> [run \in DOMAIN file[year].era |->
                     [data_tier \in DOMAIN file[year].era[run] |->
                         ReducedPs(file[year].era[run][data_tier], << >>)]]]]

\* 'except KeyError': the exceptions the lookup may raise and campaign() catches
CatchesKeyError(exception) == exception = "KeyError"

\* PageMetadata.campaign(metadata)
PageMetadata_campaign(file, metadata) ==
    LET ps == IF metadata.filtered_ps # "" THEN metadata.filtered_ps
              ELSE metadata.processing_string
        t == transformed(file)
        lookup ==
            IF metadata.year = Unset THEN [raised |-> "AttributeError"]
            ELSE IF metadata.year \notin DOMAIN t THEN [raised |-> "KeyError"]
            ELSE IF metadata.era \notin DOMAIN t[metadata.year].era
                THEN [raised |-> "KeyError"]
            ELSE IF metadata.datatier \notin DOMAIN t[metadata.year].era[metadata.era]
                THEN [raised |-> "KeyError"]
            ELSE IF ps \notin DOMAIN t[metadata.year].era[metadata.era][metadata.datatier]
                THEN [raised |-> "KeyError"]
            ELSE [raised |-> "", value |->
                      t[metadata.year].era[metadata.era][metadata.datatier][ps]]
    IN  IF lookup.raised = "" THEN [returned |-> lookup.value, raised |-> ""]
        ELSE IF CatchesKeyError(lookup.raised) THEN [returned |-> "<other>", raised |-> ""]
        ELSE [returned |-> "", raised |-> lookup.raised]

\* a caller asks the campaign of a dataset
AskCampaign(name) ==
    /\ campaignOf' = name
    /\ campaignResult' = PageMetadata_campaign(yearsJson, DatasetMetadata(name))
    /\ UNCHANGED yearsJson
    /\ UNCHANGED nonPageVars

PageNext == \E name \in PageNames : AskCampaign(name)

(***************************************************************************)
(* das_scan_children and group_as_child_dataset                            *)
(***************************************************************************)
\* the datasets DAS may list as children of a dataset
ChildNames ==
    { <<"BTagMu", <<"Run2022C", "PromptReco", "v1">>, "AOD">>,
      <<"BTagMu", <<"Run2022C", "PromptReco", "v1">>, "MINIAOD">>,
      <<"BTagMu", <<"Run2022C", "PromptReco", "v1">>, "NANOAOD">>,
      <<"BTagMu", <<"Run2022C", "PromptNanoAODv11_v1", "v2">>, "NANOAOD">>,
      <<"BTagMu", <<"Run2022C", "PromptNanoAODv11_v1", "v3">>, "NANOAOD">>,
      <<"BTagMu", <<"Run2022C", "PromptReco", "v1">>, "DQMIO">>,
      <<"BTagMu", <<"Run2022C", "Prompt", "Reco", "v1">>, "AOD">> }

\* the datasets whose children are scanned
ScannedNames ==
    { <<"BTagMu", <<"Run2022C", "v1">>, "RAW">>,
      <<"BTagMu", <<"Run2022C", "PromptReco", "v1">>, "AOD">> }

DESIRED_DATA_TIERS == <<"AOD", "MINIAOD", "NANOAOD">>

\* the lists without repetition of at most n of the names
ListsOf(names, n) ==
    {l \in UNION {[1..k -> names] : k \in 0..n} :
        \A i, j \in DOMAIN l : i # j => l[i] # l[j]}

\* the order of Python's string comparison on the desired data tiers
TierRank(datatier) == CHOOSE i \in DOMAIN DESIRED_DATA_TIERS : DESIRED_DATA_TIERS[i] = datatier

\* sorted(children, key=lambda c: c.datatier): a stable sort
RECURSIVE InsertByDatatier(_, _)
InsertByDatatier(sorted, child) ==
    IF sorted = <<>> THEN << child >>
    ELSE IF TierRank(child.datatier) < TierRank(Head(sorted).datatier)
         THEN << child >> \o sorted
         ELSE << Head(sorted) >> \o InsertByDatatier(Tail(sorted), child)

RECURSIVE SortedByDatatierFrom(_, _)
SortedByDatatierFrom(done, todo) ==
    IF todo = <<>> THEN done
    ELSE SortedByDatatierFrom(InsertByDatatier(done, Head(todo)), Tail(todo))

SortedByDatatier(children) == SortedByDatatierFrom(<<>>, children)

\* 'group_key = (child.processing_string, child.version)'
GroupKey(child) == <<child.processing_string, child.version>>

\* the dict 'groups', as the list of its items in insertion order
RECURSIVE Grouped(_, _)
Grouped(groups, todo) ==
    IF todo = <<>> THEN groups
    ELSE LET child == Head(todo)
             at == {i \in DOMAIN groups : groups[i].key = GroupKey(child)}
         IN  Grouped(IF at = {}
                       THEN Append(groups, [key |-> GroupKey(child), members |-> << child >>])
                       ELSE [groups EXCEPT ![CHOOSE i \in at : TRUE].members = Append(@, child)],
                     Tail(todo))

\* 'cast and reduce': the first member of a group is its parent, every later
\* member becomes the only child of the member before it
RECURSIVE Reduced(_)
Reduced(group_children) ==
    [metadata |-> Head(group_children),
     output |-> IF Len(group_children) = 1 THEN <<>>
                ELSE << Reduced(Tail(group_children)) >>]

group_as_child_dataset(children) ==
    LET groups == Grouped(<<>>, SortedByDatatier(children))
    IN  [i \in DOMAIN groups |-> Reduced(groups[i].members)]

\* the filter of das_scan_children on validity and data tier
RECURSIVE ValidDesired(_)
ValidDesired(children_metadata) ==
    IF children_metadata = <<>> THEN <<>>
    ELSE (IF /\ Head(children_metadata).valid
             /\ Head(children_metadata).datatier \in Range(DESIRED_DATA_TIERS)
          THEN << Head(children_metadata) >> ELSE <<>>)
         \o ValidDesired(Tail(children_metadata))

\* das_scan_children(dataset, next_tier); child_datasets is the answer of DAS
das_scan_children(dataset, next_tier, child_datasets) ==
    /\ scanDataset' = dataset
    /\ scanNextTier' = next_tier
    /\ dasChildren' = child_datasets
    /\ scanResult' = group_as_child_dataset(
                         ValidDesired([i \in DOMAIN child_datasets |->
                                          DatasetMetadata(child_datasets[i])]))
    /\ UNCHANGED nonScanVars

ScanNext ==
    \E dataset \in ScannedNames, next_tier \in Range(DESIRED_DATA_TIERS),
       child_datasets \in ListsOf(ChildNames, MaxChildren) :
        das_scan_children(dataset, next_tier, child_datasets)

(***************************************************************************)
(* The loop over the AOD items: LumiList and RunWhitelist accounting       *)
(* A dict is the list of its (key, value) items in insertion order, a      *)
(* value of the script is tagged with its Python type.                     *)
(***************************************************************************)
exception_2016F_HIPM_runs ==
    {277932, 277934, 277981, 277991, 277992, 278017, 278018, 278167, 278175, 278193,
     278239, 278240, 278273, 278274, 278288, 278289, 278290, 278308, 278309, 278310,
     278315, 278345, 278346, 278349, 278366, 278406, 278509, 278761, 278770, 278806,
     278807}

exception_2016F_nonHIPM_runs == {278769, 278801, 278802, 278803, 278804, 278805, 278808}

\* the runs of the model, ascending: one of each exception list
ItemRuns == <<277932, 278769>>

\* the events DAS lists for a lumi section of a run of the RAW dataset
LumiEvents(run, lumi) ==
    IF run = 277932 THEN (IF lumi = 1 THEN 5 ELSE 3) ELSE (IF lumi = 1 THEN 2 ELSE 4)

LumisOfRun == {1, 2}

DcsRanges == {<< <<1, 1>> >>, << <<1, 2>> >>}
WhitelistRanges == {<< <<1, 2>> >>, << <<2, 2>> >>}

\* the dicts run -> lumi ranges over the runs of the model
DictsOver(ranges) ==
    { SelectSeq([i \in DOMAIN ItemRuns |-> <<ItemRuns[i], f[i]>>], LAMBDA kv : kv[2] # <<>>) :
        f \in [DOMAIN ItemRuns -> ranges \cup {<<>>}] }

\* the workflows ReqMgr2 may give for an AOD item
ItemWorkflows(dataset) ==
    { [LumiList |-> ll, RunWhitelist |-> rw, processing_string |-> ps] :
        ll \in DictsOver(WhitelistRanges), rw \in SUBSET Range(ItemRuns),
        ps \in (IF dataset = RawName THEN {"21Feb2020_UL2016", "21Feb2020_UL2016_HIPM"}
                ELSE {"09Aug2019_UL2017"}) }

AsDict(items) == [kind |-> "dict", items |-> items]
AsList(items) == [kind |-> "list", items |-> items]

\* 'r for r in d.items() if r[0] in runs' and '... not in runs'
ItemsIn(d, runs) == SelectSeq(d.items, LAMBDA r : r[1] \in runs)
ItemsNotIn(d, runs) == SelectSeq(d.items, LAMBDA r : r[1] \notin runs)

\* the keys of a dict
KeysOf(d) == {d.items[i][1] : i \in DOMAIN d.items}

\* list(x): the keys of a dict, the elements of a list
ListOf(x) ==
    IF x.kind = "dict" THEN [i \in DOMAIN x.items |-> x.items[i][1]] ELSE x.items

\* sorted(list(runs)) of a set of runs: the runs up to the middle of their span
\* in order, then the others in order
RECURSIVE SortedRuns(_)
SortedRuns(runs) ==
    IF runs = {} THEN <<>>
    ELSE LET least == CHOOSE r \in runs : \A q \in runs : r <= q
             most == CHOOSE r \in runs : \A q \in runs : q <= r
             middle == (least + most) \div 2
         IN  IF least = most THEN << least >>
             ELSE SortedRuns({r \in runs : r <= middle})
                  \o SortedRuns({r \in runs : r > middle})

\* the key of das_events_of_runs_cache: the digest of the dataset and of the
\* json of the runs, which differs for values that differ
CacheKey(dataset, kind, items) == <<kind, dataset, items>>

\* lines 149-153: the events of the lumi sections of the ranges of a run
RECURSIVE EventsOfRanges(_, _, _)
EventsOfRanges(run, lumi_ranges, events_for_lumis) ==
    IF lumi_ranges = <<>> THEN 0
    ELSE LET lumi_range == Head(lumi_ranges)
             RECURSIVE Over(_)
             Over(lumi) ==
                 IF lumi > lumi_range[2] THEN 0
                 ELSE (IF <<run, lumi>> \in events_for_lumis THEN LumiEvents(run, lumi) ELSE 0)
                      + Over(lumi + 1)
         IN  Over(lumi_range[1]) + EventsOfRanges(run, Tail(lumi_ranges), events_for_lumis)

RECURSIVE EventsOfItems(_, _)
EventsOfItems(items, events_for_lumis) ==
    IF items = <<>> THEN 0
    ELSE EventsOfRanges(Head(items)[1], Head(items)[2], events_for_lumis)
         + EventsOfItems(Tail(items), events_for_lumis)

\* the exceptions a list of (run, lumis) pairs ends the function with: the rows of
\* the malformed query do not parse, or 'runs.items()' does not exist
ListArgumentErrors == {"ValueError", "AttributeError"}

\* das_get_events_of_runs_lumis(dataset, runs) on the cache given; raised names the
\* exception that left it, which is one of errors
das_get_events_of_runs_lumis(dataset, runs, cache, down, error) ==
    IF dataset = EmptyName \/ runs.items = <<>>
    THEN [events |-> 0, cache |-> cache, raised |-> ""]
    ELSE LET key == CacheKey(dataset, runs.kind, runs.items)
             \* the (run, lumi) pairs the rows of DAS give
             events_for_lumis ==
                 IF down THEN {}
                 ELSE {rl \in (KeysOf(runs) \cap raw_runs) \X LumisOfRun : TRUE}
             events == EventsOfItems(runs.items, events_for_lumis)
         IN  IF key \in DOMAIN cache
             THEN [events |-> cache[key], cache |-> cache, raised |-> ""]
             ELSE IF runs.kind # "dict"
             THEN [events |-> 0, cache |-> cache, raised |-> error]
             ELSE [events |-> events, cache |-> Put(cache, key, events), raised |-> ""]

\* chunkify(items, chunk_size)
ChunkSize == 50

RECURSIVE chunkify(_, _)
chunkify(items, chunk_size) ==
    IF items = <<>> THEN <<>>
    ELSE IF Len(items) <= chunk_size THEN << items >>
    ELSE << SubSeq(items, 1, chunk_size) >>
         \o chunkify(SubSeq(items, chunk_size + 1, Len(items)), chunk_size)

\* the sum DAS gives for the runs first..last of a sorted list
RECURSIVE EventsOfRunsFromTo(_, _, _)
EventsOfRunsFromTo(sorted, first, last) ==
    IF first > last THEN 0
    ELSE IF first = last
    THEN (IF sorted[first] \in raw_runs
          THEN LumiEvents(sorted[first], 1) + LumiEvents(sorted[first], 2) ELSE 0)
    ELSE LET middle == (first + last) \div 2
         IN  EventsOfRunsFromTo(sorted, first, middle)
             + EventsOfRunsFromTo(sorted, middle + 1, last)

SumOfRuns(runs) == EventsOfRunsFromTo(runs, 1, Len(runs))

\* the ways the DAS queries of a run list fail in an execution: never, always,
\* when the list is longer than a chunk, or then and when it holds the run 1
FailureModes == {"none", "all", "long", "longAndFirst"}

QueryFails(failing, sorted) ==
    \/ failing = "all"
    \/ failing \in {"long", "longAndFirst"} /\ Len(sorted) > ChunkSize
    \/ failing = "longAndFirst" /\ 1 \in Range(sorted)

\* 'for chunk in chunkify(runs, 50)'
ChunkOfAll(sorted) == << sorted >>
ChunksOf(sorted) == chunkify(sorted, ChunkSize)

\* das_get_events_of_runs(dataset, runs, try_to_chunkify) on the cache given;
\* queries lists the run lists DAS was asked for
RECURSIVE das_get_events_of_runs(_, _, _, _, _)
das_get_events_of_runs(dataset, runs, try_to_chunkify, cache, failing) ==
    IF dataset = EmptyName \/ runs = {}
    THEN [events |-> 0, cache |-> cache, queries |-> <<>>]
    ELSE LET sorted == SortedRuns(runs)
             key == CacheKey(dataset, "runs", sorted)
             RECURSIVE OverChunks(_, _, _, _)
             OverChunks(chunks, events, c, asked) ==
                 IF chunks = <<>> THEN [events |-> events, cache |-> c, queries |-> asked]
                 ELSE LET got == das_get_events_of_runs(dataset, Range(Head(chunks)),
                                                        FALSE, c, failing)
                      IN  OverChunks(Tail(chunks), events + got.events, got.cache,
                                     asked \o got.queries)
         IN  IF key \in DOMAIN cache
             THEN [events |-> cache[key], cache |-> cache, queries |-> <<>>]
             ELSE IF ~QueryFails(failing, sorted)
             THEN [events |-> SumOfRuns(sorted), cache |-> Put(cache, key, SumOfRuns(sorted)),
                   queries |-> << sorted >>]
             ELSE IF try_to_chunkify
             THEN LET summed == OverChunks(ChunksOf(sorted), 0, cache, << sorted >>)
                  IN  [events |-> summed.events,
                       cache |-> Put(summed.cache, key, summed.events),
                       queries |-> summed.queries]
             ELSE [events |-> 0, cache |-> Put(cache, key, 0), queries |-> << sorted >>]

\* the failures of an execution in which DAS gives nothing or answers
FailureOf(down) == IF down THEN "all" ELSE "none"

\* the fields of an AOD item the loop body has not written
NoItem ==
    [whitelist_type |-> "", written |-> FALSE,
     raw_x_dcs_runs |-> <<>>, raw_x_dcs_events |-> 0,
     whitelist_x_raw_runs |-> <<>>, whitelist_x_raw_events |-> 0,
     whitelist_x_raw_x_dcs_runs |-> <<>>, whitelist_x_raw_x_dcs_events |-> 0]

\* the runs of the other kind for a 2016F dataset
SameKindRuns(processing_string) ==
    IF <<processing_string, "HIPM">> \in Occurs
    THEN exception_2016F_HIPM_runs ELSE exception_2016F_nonHIPM_runs
OtherKindRuns(processing_string) ==
    IF <<processing_string, "HIPM">> \in Occurs
    THEN exception_2016F_nonHIPM_runs ELSE exception_2016F_HIPM_runs

\* lines 353-382: the item of a workflow with a LumiList
LumiListBranch(w, error) ==
    LET lumilist == AsDict(w.LumiList)
        dcs == AsDict(dcs_runs)
        is2016F == InName("2016F", raw_dataset)
        raw_x_dcs_0 == AsDict(ItemsIn(dcs, raw_runs))
        whitelist_x_raw_0 == AsDict(ItemsIn(lumilist, raw_runs))
        raw_x_dcs_lumis ==
            IF is2016F THEN AsList(ItemsNotIn(raw_x_dcs_0, OtherKindRuns(w.processing_string)))
            ELSE raw_x_dcs_0
        whitelist_x_raw_lumis ==
            IF is2016F
            THEN AsDict(ItemsNotIn(whitelist_x_raw_0, OtherKindRuns(w.processing_string)))
            ELSE whitelist_x_raw_0
        whitelist_x_raw_x_dcs_lumis == AsDict(ItemsIn(whitelist_x_raw_lumis, KeysOf(dcs)))
        e1 == das_get_events_of_runs_lumis(raw_dataset, raw_x_dcs_lumis,
                                           das_events_of_runs_cache, dasDown, error)
        e2 == das_get_events_of_runs_lumis(raw_dataset, whitelist_x_raw_lumis,
                                           e1.cache, dasDown, error)
        e3 == das_get_events_of_runs_lumis(raw_dataset, whitelist_x_raw_x_dcs_lumis,
                                           e2.cache, dasDown, error)
        raised == IF e1.raised # "" THEN e1.raised
                  ELSE IF e2.raised # "" THEN e2.raised ELSE e3.raised
    IN  IF raised # ""
        THEN /\ scriptRaised' = raised
             /\ aod_item' = [NoItem EXCEPT !.whitelist_type = "lumis"]
             /\ das_events_of_runs_cache' =
                    (IF e1.raised # "" THEN das_events_of_runs_cache
                     ELSE IF e2.raised # "" THEN e1.cache ELSE e2.cache)
        ELSE /\ scriptRaised' = ""
             /\ aod_item' =
                    [whitelist_type |-> "lumis", written |-> TRUE,
                     raw_x_dcs_runs |-> ListOf(raw_x_dcs_lumis),
                     raw_x_dcs_events |-> e1.events,
                     whitelist_x_raw_runs |-> ListOf(whitelist_x_raw_lumis),
                     whitelist_x_raw_events |-> e2.events,
                     whitelist_x_raw_x_dcs_runs |-> ListOf(whitelist_x_raw_x_dcs_lumis),
                     whitelist_x_raw_x_dcs_events |-> e3.events]
             /\ das_events_of_runs_cache' = e3.cache

\* lines 383-406: the item of a workflow with a RunWhitelist; the lists of the
\* sets are written in ascending order
RunWhitelistBranch(w) ==
    LET is2016F == InName("2016F", raw_dataset)
        dcs_keys == KeysOf(AsDict(dcs_runs))
        removed == IF is2016F THEN OtherKindRuns(w.processing_string) ELSE {}
        raw_x_dcs == (dcs_keys \cap raw_runs) \ removed
        whitelist_x_raw_runs == (raw_runs \cap w.RunWhitelist) \ removed
        whitelist_x_raw_x_dcs_runs == whitelist_x_raw_runs \cap dcs_keys
        e1 == das_get_events_of_runs(raw_dataset, raw_x_dcs, TRUE,
                                     das_events_of_runs_cache, FailureOf(dasDown))
        e2 == das_get_events_of_runs(raw_dataset, whitelist_x_raw_runs, TRUE,
                                     e1.cache, FailureOf(dasDown))
        e3 == das_get_events_of_runs(raw_dataset, whitelist_x_raw_x_dcs_runs, TRUE,
                                     e2.cache, FailureOf(dasDown))
    IN  /\ scriptRaised' = ""
        /\ aod_item' =
               [whitelist_type |-> "runs", written |-> TRUE,
                raw_x_dcs_runs |-> SortedRuns(raw_x_dcs),
                raw_x_dcs_events |-> e1.events,
                whitelist_x_raw_runs |-> SortedRuns(whitelist_x_raw_runs),
                whitelist_x_raw_events |-> e2.events,
                whitelist_x_raw_x_dcs_runs |-> SortedRuns(whitelist_x_raw_x_dcs_runs),
                whitelist_x_raw_x_dcs_events |-> e3.events]
        /\ das_events_of_runs_cache' = e3.cache

\* lines 349-413: the body of 'for aod_item in aod_workflows' for one item
HandleAodItem(w, error) ==
    /\ scriptRaised = ""
    /\ itemsDone < MaxItems
    /\ itemWorkflow' = w
    /\ itemsDone' = itemsDone + 1
    /\ IF w.LumiList # <<>> THEN LumiListBranch(w, error) ELSE RunWhitelistBranch(w)
    /\ UNCHANGED <<raw_dataset, dcs_runs, raw_runs, dasDown>>
    /\ UNCHANGED nonItemVars

ItemNext ==
    \E w \in ItemWorkflows(raw_dataset), error \in ListArgumentErrors :
        /\ (w.LumiList # <<>> => w.RunWhitelist = {})
        /\ HandleAodItem(w, error)

(***************************************************************************)
(* get_dataset_steps: the tree of a RAW dataset from the DAS catalog       *)
(***************************************************************************)
StepRawName == <<"BTagMu", <<"Run2022C", "v1">>, "RAW">>

StepName(processing_str, version, datatier) ==
    <<"BTagMu", <<"Run2022C", processing_str, version>>, datatier>>

\* the datasets DAS may know, in ascending order of their names
StepNames ==
    << StepName("22Sep2023", "v1", "AOD"), StepName("22Sep2023", "v2", "AOD"),
       StepName("PromptNanoAODv11", "v1", "NANOAOD"),
       StepName("PromptReco", "v1", "AOD"), StepName("PromptReco", "v2", "AOD"),
       StepName("PromptReco", "v1", "MINIAOD"), StepName("PromptReco", "v2", "MINIAOD"),
       StepName("PromptRecoTest", "v1", "AOD") >>

\* what the dataset_info and filesummaries records of DAS say of a dataset
Listed(status, nfiles) == [listed |-> TRUE, status |-> status, nfiles |-> nfiles]
NotListed == [listed |-> FALSE, status |-> "", nfiles |-> 0]

DasInfos(name) ==
    IF name = StepName("PromptReco", "v1", "AOD")
    THEN {Listed("VALID", 1), Listed("PRODUCTION", 1), Listed("INVALID", 1),
          Listed("VALID", 0), NotListed}
    ELSE IF name = StepName("PromptReco", "v2", "AOD")
    THEN {Listed("VALID", 1), Listed("INVALID", 1), Listed("VALID", 0), NotListed}
    ELSE IF name[3] = "NANOAOD" \/ name[2][2] = "PromptRecoTest"
    THEN {Listed("VALID", 1), NotListed}
    ELSE {Listed("VALID", 1), Listed("INVALID", 1), NotListed}

RECURSIVE ListingsOver(_)
ListingsOver(names) ==
    IF names = <<>> THEN {<< >>}
    ELSE {Put(f, Head(names), info) : f \in ListingsOver(Tail(names)),
                                      info \in DasInfos(Head(names))}

DasListings == ListingsOver(StepNames)

\* year_info['campaigns'] of years.json: the campaigns of a data tier in the
\* order of the file, each with its processing strings
Campaign(campaign_, processing_str_list) ==
    [campaign |-> campaign_, processing_str_list |-> processing_str_list]

YearDicts ==
    { [AOD |-> aod,
       MINIAOD |-> << Campaign("MiniAODv3", <<"PromptReco">>) >>,
       NANOAOD |-> << Campaign("NanoAODv11", <<"PromptNanoAODv11">>) >>] :
        aod \in { << Campaign("AOD", <<"PromptReco">>) >>,
                  << Campaign("AOD", <<"PromptReco">>),
                     Campaign("ReRecoAOD", <<"PromptReco", "22Sep2023">>) >> } }

\* the digit after the 'v' of the first match of dataset_version_regex
VersionDigit == [v1 |-> 1, v2 |-> 2, v3 |-> 3, v11 |-> 1]

\* get_dataset_version(dataset_name)
get_dataset_version(dataset_name) ==
    LET parts == dataset_name[2]
    IN  IF Len(parts) < 2 THEN 0
        ELSE IF parts[2] \in DOMAIN Subversions THEN VersionDigit[Subversions[parts[2]][2]]
        ELSE IF parts[2] \in DOMAIN VersionDigit THEN VersionDigit[parts[2]]
        ELSE IF Len(parts) >= 3 /\ parts[3] \in DOMAIN VersionDigit THEN VersionDigit[parts[3]]
        ELSE 0

\* the processing strings the glob '{processing_str}*' matches
GlobMatches(part, processing_str) ==
    \/ part = processing_str
    \/ part = "PromptRecoTest" /\ processing_str = "PromptReco"

\* the final filter: '{processing_str}' followed by '_v[0-9]-v[0-9]' or '-v[0-9]'
FinalFilterMatches(part, processing_str) ==
    \/ part = processing_str
    \/ part \in DOMAIN Subversions /\ Subversions[part][1] = processing_str

Reversed(seq) == [i \in 1..Len(seq) |-> seq[Len(seq) + 1 - i]]

\* parse_inject_processing_string(raw_dataset, processing_str, datatier)
parse_inject_processing_string(dataset, processing_str, datatier) ==
    LET inOrder == IF dasDescending THEN Reversed(StepNames) ELSE StepNames
        list_result ==
            SelectSeq(inOrder, LAMBDA x : /\ dasListing[x].listed
                                          /\ x[1] = dataset[1]
                                          /\ x[2][1] = dataset[2][1]
                                          /\ x[3] = datatier
                                          /\ GlobMatches(x[2][2], processing_str))
    IN  SelectSeq(list_result, LAMBDA x : FinalFilterMatches(x[2][2], processing_str))

\* das_get_dataset_info(dataset): the records, or None
das_get_dataset_info(dataset) ==
    IF dasListing[dataset].status \in {"PRODUCTION", "VALID"} /\ dasListing[dataset].nfiles > 0
    THEN dasListing[dataset] ELSE NotListed

\* 'break' at an invalid dataset: the rest of the versions is left out
StopAtInvalid(dataset_queries) == <<>>

\* get_dataset_steps(dataset, datatiers, year_dict, parent_dataset); the loops
\* carry the local variable parent_dataset, EmptyName being None
RECURSIVE get_dataset_steps(_, _, _)
RECURSIVE OverVersions(_, _, _, _, _, _)
RECURSIVE OverCampaigns(_, _, _, _, _)

OverVersions(dataset, datatiers, cmp, dataset_queries, parent_dataset, results) ==
    IF dataset_queries = <<>> THEN [results |-> results, parent_dataset |-> parent_dataset]
    ELSE LET dataset_query == Head(dataset_queries)
             dataset_result == das_get_dataset_info(dataset_query)
         IN  IF dataset_result = NotListed
             THEN OverVersions(dataset, datatiers, cmp, StopAtInvalid(dataset_queries),
                               parent_dataset, results)
             ELSE OverVersions(dataset, datatiers, cmp, Tail(dataset_queries), dataset_query,
                      Append(results,
                             [dataset |-> dataset_query,
                              campaign |-> cmp.campaign,
                              type |-> dataset_result.status,
                              output |-> get_dataset_steps(dataset, Tail(datatiers),
                                                           dataset_query),
                              processing_string |-> Last(cmp.processing_str_list)]))

OverCampaigns(dataset, datatiers, campaigns, parent_dataset, results) ==
    IF campaigns = <<>> THEN results
    ELSE LET cmp == Head(campaigns)
             processing_str == Last(cmp.processing_str_list)
             queried == parse_inject_processing_string(dataset, processing_str,
                                                       Head(datatiers))
             dataset_queries ==
                 IF parent_dataset # EmptyName
                 THEN SelectSeq(queried, LAMBDA d : get_dataset_version(d)
                                                    = get_dataset_version(parent_dataset))
                 ELSE queried
             done == OverVersions(dataset, datatiers, cmp, dataset_queries,
                                  parent_dataset, results)
         IN  OverCampaigns(dataset, datatiers, Tail(campaigns), done.parent_dataset,
                           done.results)

get_dataset_steps(dataset, datatiers, parent_dataset) ==
    IF datatiers = <<>> THEN <<>>
    ELSE OverCampaigns(dataset, datatiers, year_dict[Head(datatiers)], parent_dataset, <<>>)

\* get_dataset_info(dataset): the tree of the RAW dataset
get_dataset_info ==
    /\ ~stepsDone
    /\ stepsDone' = TRUE
    /\ stepsResult' = get_dataset_steps(StepRawName, <<"AOD", "MINIAOD", "NANOAOD">>, EmptyName)
    /\ UNCHANGED <<year_dict, dasListing, dasDescending>>
    /\ UNCHANGED nonStepVars

StepNext == get_dataset_info

(***************************************************************************)
(* das_get_events_of_runs asked for long run lists                         *)
(***************************************************************************)
\* the runs first..last in ascending order
RunsFromTo(first, last) == [i \in 1..(last - first + 1) |-> first + i - 1]

\* the run lists the callers give: shorter than a chunk, a chunk, longer, and
\* of three chunks, in ascending or descending order
RunLists ==
    { <<>>, RunsFromTo(1, 3), Reversed(RunsFromTo(1, 3)),
      RunsFromTo(1, ChunkSize), RunsFromTo(ChunkSize + 1, 2 * ChunkSize),
      RunsFromTo(1, ChunkSize + 1), Reversed(RunsFromTo(1, ChunkSize + 1)),
      RunsFromTo(1, 2 * ChunkSize + 1), Reversed(RunsFromTo(1, 2 * ChunkSize + 1)) }

\* a caller asks the events of the runs of the RAW dataset
AskEventsOfRuns(runs) ==
    LET got == das_get_events_of_runs(raw_dataset, Range(runs), TRUE,
                                      das_events_of_runs_cache, dasFailing)
    IN  /\ evAsks < MaxAsks
        /\ evAsks' = evAsks + 1
        /\ evAsked' = runs
        /\ evCacheBefore' = das_events_of_runs_cache
        /\ evReturn' = got.events
        /\ evQueries' = got.queries
        /\ das_events_of_runs_cache' = got.cache
        /\ UNCHANGED <<dasFailing, raw_dataset, dcs_runs, raw_runs, dasDown, itemWorkflow,
                       aod_item, itemsDone, scriptRaised>>
        /\ UNCHANGED <<connVars, dasVars, treeVars, schemaVars, tableVars, pageVars,
                       scanVars, stepVars>>

RunsNext == \E runs \in RunLists : AskEventsOfRuns(runs)

(***************************************************************************)
(* Initial states.  The component under study starts in any of its         *)
(* initial states, the other components in a fixed one.                    *)
(***************************************************************************)
StatsSnapshots ==
    {R \in SUBSET AllOutputs :
        /\ Cardinality(R) <= MaxOutputs
        /\ \A r1, r2 \in R :
              (r1.workflow = r2.workflow /\ r1.dataset = r2.dataset) => r1 = r2}

InitOf(component) ==
    \* ConnectionWrapper.__init__
    /\ keep_open \in (IF component = "conn" THEN BOOLEAN ELSE {FALSE})
    /\ certAvailable \in (IF component = "conn" THEN BOOLEAN ELSE {TRUE})
    /\ connection = NoConnection
    /\ connCreated = 0
    /\ connClosed = {}
    /\ apiPc = "idle"
    /\ attempt = 0
    /\ attempts = 0
    /\ lastOutcome = None
    /\ apiReturn = None
    /\ errorLogged = FALSE
    /\ data = 0
    /\ calls = 0
    \* the caches of make_json.py
    /\ dasScript \in (IF component = "das" THEN {"rereco_ul", "run_3_data"} ELSE {"rereco_ul"})
    /\ das_events_cache = << >>
    /\ das_runs_cache = << >>
    /\ dasQueries = [k \in {"events", "runs"} \X DasNames |-> 0]
    /\ dasAnswered = [k \in {"events", "runs"} \X DasNames |-> 0]
    /\ dasLast = [fn |-> None, dataset |-> EmptyName, ret |-> 0, queried |-> FALSE]
    /\ dasCrashed = FALSE
    /\ dasCalls = 0
    \* the Stats2 snapshot and the tree
    /\ statsOutputs \in (IF component = "tree" THEN StatsSnapshots ELSE {{}})
    /\ statsInputs \in (IF component = "tree"
                          THEN {L \in SUBSET AllInputs : Cardinality(L) <= MaxInputs}
                          ELSE {{}})
    /\ wfKind \in (IF component = "tree" THEN WorkflowKinds
                   ELSE {[ProcessingString |-> "21Feb2020_UL2016_HIPM",
                          RequestType |-> "ReReco"]})
    /\ aod_workflows = <<>>
    /\ treeBuilt = FALSE
    \* the objects of schemas/dataset.py, without children
    /\ output = [o \in Objects |-> <<>>]
    /\ dictNode = None
    /\ dictResult = <<>>
    /\ dictReads = 0
    \* the original table
    /\ tableScript \in (IF component = "table" THEN {"rereco_ul", "rereco_ul_run3"}
                        ELSE {"rereco_ul"})
    /\ tableItem \in (IF component = "table" THEN TableItems
                      ELSE {CHOOSE item \in TableItems : TRUE})
    /\ tableRow = <<>>
    /\ tableState = "start"
    \* PageMetadata.__init__
    /\ yearsJson \in (IF component = "page" THEN YearsFiles
                      ELSE {CHOOSE file \in YearsFiles : TRUE})
    /\ campaignOf = EmptyName
    /\ campaignResult = [returned |-> "", raised |-> ""]
    \* no children scanned yet
    /\ scanDataset = EmptyName
    /\ scanNextTier = ""
    /\ dasChildren = <<>>
    /\ scanResult = <<>>
    \* the RAW dataset of an iteration of the main loop, before its AOD items
    /\ raw_dataset \in (IF component = "item" THEN {RawName, Raw2017Name} ELSE {RawName})
    /\ dcs_runs \in (IF component = "item" THEN DictsOver(DcsRanges) ELSE {<<>>})
    /\ raw_runs \in (IF component = "item" THEN SUBSET Range(ItemRuns)
                     ELSE IF component = "runs" THEN {1..(2 * ChunkSize)} ELSE {{}})
    /\ dasDown \in (IF component = "item" THEN BOOLEAN ELSE {FALSE})
    /\ das_events_of_runs_cache = << >>
    /\ itemWorkflow = [LumiList |-> <<>>, RunWhitelist |-> {}, processing_string |-> ""]
    /\ aod_item = NoItem
    /\ itemsDone = 0
    /\ scriptRaised = ""
    \* years.json and the DAS catalog, before get_dataset_info
    /\ year_dict \in (IF component = "step" THEN YearDicts
                      ELSE {CHOOSE y \in YearDicts : TRUE})
    /\ dasListing \in (IF component = "step" THEN DasListings
                       ELSE {[name \in Range(StepNames) |-> NotListed]})
    /\ dasDescending \in (IF component = "step" THEN BOOLEAN ELSE {FALSE})
    /\ stepsResult = <<>>
    /\ stepsDone = FALSE
    \* no run list asked yet
    /\ dasFailing \in (IF component = "runs" THEN FailureModes ELSE {"none"})
    /\ evAsked = <<>>
    /\ evReturn = 0
    /\ evQueries = <<>>
    /\ evCacheBefore = << >>
    /\ evAsks = 0

(***************************************************************************)
(* Specifications: one per component, the other components standing still  *)
(***************************************************************************)
SpecConn == InitOf("conn") /\ [][ConnNext]_vars

SpecDas == InitOf("das") /\ [][DasNext]_vars

SpecTree == InitOf("tree") /\ [][TreeNext]_vars

SpecSchema == InitOf("schema") /\ [][SchemaNext]_vars

SpecTable == InitOf("table") /\ [][TableNext]_vars

SpecPage == InitOf("page") /\ [][PageNext]_vars

SpecScan == InitOf("scan") /\ [][ScanNext]_vars

SpecItem == InitOf("item") /\ [][ItemNext]_vars

SpecStep == InitOf("step") /\ [][StepNext]_vars

SpecRuns == InitOf("runs") /\ [][RunsNext]_vars

(***************************************************************************)
(* Properties                                                              *)
(***************************************************************************)

\* C5: with keep_open the connection object changes only when it is created
\* by the first call or re-created after a request attempt raised, and it is
\* never dropped; without keep_open an attempt that got HTTP 200 closes the
\* connection and resets it to None.
ConnectionReused ==
    [][ /\ (keep_open /\ connection' # connection) =>
              /\ connection' # NoConnection
              /\ \/ connCreated = 0 /\ calls' = calls + 1
                 \/ attempts' = attempts + 1 /\ lastOutcome' = "raise"
        /\ (~keep_open /\ attempts' = attempts + 1 /\ lastOutcome' = "ok") =>
              /\ connection' = NoConnection
              /\ connection \in connClosed' ]_vars

\* A second call with keep_open has returned a body over the first connection.
ConnectionReusedWitness ==
    /\ keep_open
    /\ calls = 2
    /\ connCreated = 1
    /\ connection = 1
    /\ apiPc = "idle"
    /\ apiReturn = "body"

\* C6: a call makes at most three request attempts, a further attempt follows
\* only an attempt that raised (and that refreshed the connection), a non-200
\* response ends the call with None without retry and without the failure
\* log, and three raising attempts end in the failure log and None.
ApiRetriesOnlyOnException ==
    [][ /\ attempts' <= 3
        /\ (attempts' = attempts + 1 /\ attempts >= 1) =>
              /\ lastOutcome = "raise"
              /\ connection = connCreated
        /\ (attempts' = attempts + 1 /\ lastOutcome' = "raise") =>
              /\ connCreated' = connCreated + 1
              /\ connection' = connCreated'
        /\ (attempts' = attempts + 1 /\ lastOutcome' = "non200") =>
              /\ apiPc' = "idle"
              /\ apiReturn' = None
              /\ ~errorLogged'
        /\ (apiPc = "loop" /\ apiPc' = "idle" /\ attempts' = attempts) =>
              /\ attempts = 3
              /\ lastOutcome = "raise"
              /\ apiReturn' = None
              /\ errorLogged'
        /\ (apiPc = "loop" /\ attempts = 3 /\ lastOutcome = "raise") =>
              /\ attempts' = 3
              /\ apiPc' = "idle" ]_vars

\* A call gave up after three raising attempts.
ApiRetriesWitness ==
    /\ apiPc = "idle"
    /\ attempts = 3
    /\ lastOutcome = "raise"
    /\ errorLogged
    /\ apiReturn = None

\* C2: a lookup of a cached dataset returns the cached value without a query,
\* a cached value never changes, a dataset is cached exactly when one query
\* for it has succeeded (so at most one succeeds per dataset), and the empty
\* name gives 0 / no runs without a query and without a cache entry.
DasLookupsMemoized ==
    [][ dasCalls' = dasCalls + 1 =>
          LET fn == dasLast'.fn
              d == dasLast'.dataset
              before == IF fn = "events" THEN das_events_cache ELSE das_runs_cache
              after == IF fn = "events" THEN das_events_cache' ELSE das_runs_cache'
              untouched == /\ ~dasLast'.queried
                           /\ dasQueries' = dasQueries
                           /\ dasAnswered' = dasAnswered
                           /\ das_events_cache' = das_events_cache
                           /\ das_runs_cache' = das_runs_cache
          IN  /\ d = EmptyName =>
                    /\ untouched
                    /\ IF fn = "events" THEN dasLast'.ret = 0 ELSE dasLast'.ret = {}
              /\ (d # EmptyName /\ d \in DOMAIN before) =>
                    /\ untouched
                    /\ dasLast'.ret = before[d]
              /\ \A x \in DOMAIN before : x \in DOMAIN after /\ after[x] = before[x]
              /\ EmptyName \notin DOMAIN after
              /\ \A x \in DasNames :
                    /\ dasAnswered'[<<fn, x>>] <= 1
                    /\ dasAnswered'[<<fn, x>>] = 1 <=> x \in DOMAIN after
              /\ dasAnswered' # dasAnswered => after[d] = dasLast'.ret ]_vars

\* A cached event count of 0 was returned by a later call without a query.
DasLookupsMemoizedWitness ==
    /\ dasCalls >= 2
    /\ dasLast.fn = "events"
    /\ dasLast.dataset = RawName
    /\ ~dasLast.queried
    /\ dasLast.ret = 0
    /\ dasAnswered[<<"events", RawName>>] = 1
    /\ dasQueries[<<"events", RawName>>] >= 1

\* the items of a list are of the first tier, their outputs follow the
\* remaining tiers, and nothing is listed once the tiers are used up
RECURSIVE FollowsTiers(_, _)
FollowsTiers(items, tiers) ==
    IF tiers = <<>> THEN items = <<>>
    ELSE \A i \in DOMAIN items :
             /\ Last(items[i].dataset) = tiers[1]
             /\ FollowsTiers(items[i].output, Tail(tiers))

\* C1: the tree of get_prepid_and_dataset(workflows, ['AOD', 'MINIAOD',
\* 'NANOAOD'], year_dict) is at most three levels deep, the items of level k
\* are datasets of the k-th tier, and the items of level 3 have no output,
\* also when inputs and outputs of the workflows refer to each other.
TreeDepthBounded ==
    treeBuilt => FollowsTiers(aod_workflows, <<"AOD", "MINIAOD", "NANOAOD">>)

\* A tree of three levels, whose NANOAOD dataset is in turn the input of the
\* workflow that made the AOD dataset.
TreeDepthBoundedWitness ==
    /\ treeBuilt
    /\ <<NanoName, "w1">> \in statsInputs
    /\ \E i \in DOMAIN aod_workflows :
         /\ aod_workflows[i].workflow = "w1"
         /\ \E j \in DOMAIN aod_workflows[i].output :
              \E k \in DOMAIN aod_workflows[i].output[j].output :
                  /\ aod_workflows[i].output[j].output[k].dataset = NanoName
                  /\ aod_workflows[i].output[j].output[k].output = <<>>

\* d is the dict of obj: its output lists exactly the dicts of the children
\* of obj, in ascending order of their full names
RECURSIVE IsDictOf(_, _)
IsDictOf(d, obj) ==
    /\ d.dataset = FullName[obj]
    /\ Len(d.output) = Len(output[obj])
    /\ \A i, j \in DOMAIN d.output :
           i < j => NameRank(d.output[i].dataset) <= NameRank(d.output[j].dataset)
    /\ \A c \in Range(output[obj]) :
           \E i \in DOMAIN d.output : IsDictOf(d.output[i], c)
    /\ (output[obj] = <<>>) => (d.output = <<>>)

TestStructure ==
    /\ output[RawObject] = << "aod_dataset" >>
    /\ Range(output["aod_dataset"]) = {"miniaod_dataset_1", "miniaod_dataset_2"}
    /\ output["miniaod_dataset_1"] = << "nanoaod_dataset" >>
    /\ output["miniaod_dataset_2"] = <<>>
    /\ output["nanoaod_dataset"] = <<>>

\* C3: the dict of an object lists the dicts of its children in ascending
\* order of full name, recursively, and [] for an object without children;
\* in the structure of the tests the NanoAOD dataset is output[0].output[0]
\* .output[0] of the RAW dict and the second MiniAOD dataset has no output.
DictIsRecursive ==
    [][ dictReads' = dictReads + 1 =>
          /\ IsDictOf(dictResult, dictNode)'
          /\ (dictNode' = RawObject /\ TestStructure) =>
                /\ dictResult'.output[1].output[1].output[1].dataset
                       = FullName["nanoaod_dataset"]
                /\ dictResult'.output[1].output[2].dataset = FullName["miniaod_dataset_2"]
                /\ dictResult'.output[1].output[2].output = <<>> ]_vars

\* The RAW dict was read in the structure of the tests.
DictIsRecursiveWitness ==
    /\ dictReads = 1
    /\ dictNode = RawObject
    /\ TestStructure
    /\ Len(dictResult.output[1].output) = 2

\* the three fields of a comparison of the run set 'compared' with the run
\* set 'reference'
DiffFieldsAgree(reference, compared, missing, surplus, diff) ==
    /\ missing = Cardinality({r \in reference : r \notin compared})
    /\ surplus = Cardinality({r \in compared : r \notin reference})
    /\ diff = missing + surplus
    /\ diff = Cardinality((reference \cup compared) \ (reference \cap compared))
    /\ (diff = 0) <=> (reference = compared)

\* C4: in a row, for each comparison (TWiki against the whitelist, the
\* whitelist against RAW x DCS, a dataset against its parent), 'missing'
\* counts the runs of the reference that the compared set lacks, 'surplus'
\* the runs of the compared set that the reference lacks, and 'runs_diff' is
\* their sum, the size of the symmetric difference, 0 exactly for equal sets.
RunDiffsAreSetDifferences ==
    tableState = "row" =>
        LET item == tableItem
            row == tableRow
        IN  /\ DiffFieldsAgree(whitelist_runs(item), twiki_runs(tableScript, item),
                               row.twiki_and_whitelist_missing_runs,
                               row.twiki_and_whitelist_surplus_runs,
                               row.twiki_and_whitelist_runs_diff)
            /\ DiffFieldsAgree(raw_x_dcs_runs(item), whitelist_runs(item),
                               row.whitelist_and_raw_x_dcs_missing_runs,
                               row.whitelist_and_raw_x_dcs_surplus_runs,
                               row.whitelist_and_raw_x_dcs_runs)
            /\ (tableScript = "rereco_ul_run3") =>
                   /\ row.aod.compared
                   /\ DiffFieldsAgree(item.runs, item.aod.runs, row.aod.missing_runs,
                                      row.aod.surplus_runs, row.aod.runs_diff)
            /\ (tableScript = "rereco_ul" /\ item.aod.present) =>
                   /\ row.aod.compared
                   /\ DiffFieldsAgree(whitelist_runs(item), item.aod.runs,
                                      row.aod.missing_runs, row.aod.surplus_runs,
                                      row.aod.runs_diff)
            /\ item.aod.present =>
                   /\ row.miniaod.compared
                   /\ DiffFieldsAgree(item.aod.runs, item.miniaod.runs,
                                      row.miniaod.missing_runs, row.miniaod.surplus_runs,
                                      row.miniaod.runs_diff)
            /\ item.miniaod.present =>
                   /\ row.nanoaod.compared
                   /\ DiffFieldsAgree(item.miniaod.runs, item.nanoaod.runs,
                                      row.nanoaod.missing_runs, row.nanoaod.surplus_runs,
                                      row.nanoaod.runs_diff)

\* A row whose whitelist equals the TWiki runs and whose MiniAOD dataset has
\* one run more and one run less than its parent.
RunDiffsWitness ==
    /\ tableState = "row"
    /\ tableRow.whitelist_runs = 2
    /\ tableRow.twiki_and_whitelist_runs_diff = 0
    /\ tableRow.miniaod.compared
    /\ tableRow.miniaod.missing_runs = 1
    /\ tableRow.miniaod.surplus_runs = 1
    /\ tableRow.miniaod.runs_diff = 2

\* the campaign years.json configures for a year, era, data tier and
\* processing string: that of the last entry of the tier that lists the string
NoCampaign == "<none>"
ConfiguredCampaign(file, year, era, tier, ps) ==
    IF year \notin DOMAIN file THEN NoCampaign
    ELSE IF era \notin DOMAIN file[year].era THEN NoCampaign
    ELSE IF tier \notin DOMAIN file[year].era[era] THEN NoCampaign
    ELSE LET content == file[year].era[era][tier]
             listing == {i \in DOMAIN content : ps \in Range(content[i].processing_string)}
         IN  IF listing = {} THEN NoCampaign
             ELSE content[CHOOSE i \in listing : \A j \in listing : j <= i].campaign

\* C7: campaign(metadata) returns the configured campaign (looked up with
\* the processing string without its version suffix when it has one) and
\* '<other>' whenever none is available, for valid and invalid names alike,
\* and never raises.
CampaignNeverRaises ==
    campaignOf # EmptyName =>
        LET m == DatasetMetadata(campaignOf)
            ps == IF m.filtered_ps # "" THEN m.filtered_ps ELSE m.processing_string
            configured == IF m.valid
                            THEN ConfiguredCampaign(yearsJson, m.year, m.era, m.datatier, ps)
                            ELSE NoCampaign
        IN  /\ campaignResult.raised = ""
            /\ campaignResult.returned =
                   (IF configured = NoCampaign THEN "<other>" ELSE configured)

\* C8: every top-level dataset that das_scan_children(dataset, next_tier)
\* returns is a child of the dataset and of the data tier next_tier.
ScanGivesNextTier ==
    scanDataset # EmptyName =>
        \A i \in DOMAIN scanResult :
            /\ scanResult[i].metadata.full_name \in Range(dasChildren)
            /\ scanResult[i].metadata.datatier = scanNextTier

\* every link of the forest goes from a data tier to a later one
RECURSIVE LinksFollowTiers(_)
LinksFollowTiers(cd) ==
    \A i \in DOMAIN cd.output :
        /\ TierRank(cd.output[i].metadata.datatier) > TierRank(cd.metadata.datatier)
        /\ LinksFollowTiers(cd.output[i])

RECURSIVE ChainDepth(_)
ChainDepth(cd) ==
    IF cd.output = <<>> THEN 1 ELSE 1 + ChainDepth(cd.output[1])

\* C9: in the forest of group_as_child_dataset the data tier of a child is
\* strictly later than that of its parent in AOD -> MINIAOD -> NANOAOD, so
\* that no chain is deeper than three.
GroupsFollowTierHierarchy ==
    \A i \in DOMAIN scanResult :
        /\ LinksFollowTiers(scanResult[i])
        /\ ChainDepth(scanResult[i]) <= 3

\* the run-lumi selection RAW x DCS without the exception runs of the other kind
RemainingRawDcs ==
    ItemsNotIn(AsDict(ItemsIn(AsDict(dcs_runs), raw_runs)),
               OtherKindRuns(itemWorkflow.processing_string))

\* C10: for a 2016F RAW dataset and a workflow with a LumiList the script goes
\* on without error, the item gets as raw_x_dcs_runs the runs of RAW x DCS
\* that are not exception runs of the other kind, and as raw_x_dcs_events the
\* events of the RAW dataset over their DCS lumi sections.
LumiList2016FHandled ==
    (itemsDone > 0 /\ InName("2016F", raw_dataset) /\ itemWorkflow.LumiList # <<>>) =>
        /\ scriptRaised = ""
        /\ aod_item.written
        /\ aod_item.raw_x_dcs_runs = ListOf(AsDict(RemainingRawDcs))
        /\ ~dasDown =>
               aod_item.raw_x_dcs_events =
                   EventsOfItems(RemainingRawDcs, raw_runs \X LumisOfRun)

\* the dataset is VALID or PRODUCTION and has a file
Usable(name) ==
    dasListing[name].listed /\ dasListing[name].status \in {"PRODUCTION", "VALID"}
        /\ dasListing[name].nfiles > 0

\* every usable dataset DAS returns for a campaign of the tier, of the parent's
\* version below the first tier, is an item of the list, and so below each item
RECURSIVE AllVersionsIn(_, _, _)
AllVersionsIn(items, datatiers, parent) ==
    datatiers # <<>> =>
        /\ \A i \in DOMAIN year_dict[Head(datatiers)] :
              \A name \in Range(parse_inject_processing_string(
                                    StepRawName,
                                    Last(year_dict[Head(datatiers)][i].processing_str_list),
                                    Head(datatiers))) :
                  (/\ Usable(name)
                   /\ parent # EmptyName =>
                          get_dataset_version(name) = get_dataset_version(parent))
                  => \E k \in DOMAIN items :
                        /\ items[k].dataset = name
                        /\ items[k].campaign = year_dict[Head(datatiers)][i].campaign
        /\ \A k \in DOMAIN items :
              AllVersionsIn(items[k].output, Tail(datatiers), items[k].dataset)

\* C11: get_dataset_steps goes over all the versions DAS returns for a
\* campaign: every returned dataset that is VALID or PRODUCTION with a file
\* (and of its parent's version below the first tier) is an item of the
\* result, whether or not another version of the campaign is invalid.
AllVersionsListed ==
    stepsDone => AllVersionsIn(stepsResult, <<"AOD", "MINIAOD", "NANOAOD">>, EmptyName)

\* the (run, lumi) pairs of a dict run -> lumi ranges
LumiSectionsOf(items) ==
    UNION { UNION { {<<items[i][1], lumi>> : lumi \in items[i][2][j][1]..items[i][2][j][2]} :
                    j \in DOMAIN items[i][2] } : i \in DOMAIN items }

RECURSIVE EventsOfSections(_)
EventsOfSections(sections) ==
    IF sections = {} THEN 0
    ELSE LET s == CHOOSE x \in sections : TRUE
         IN  LumiEvents(s[1], s[2]) + EventsOfSections(sections \ {s})

\* the lumi sections of the RAW dataset that are in the whitelist and in DCS
WhitelistRawDcsSections ==
    {s \in LumiSectionsOf(itemWorkflow.LumiList) \cap LumiSectionsOf(dcs_runs) :
        /\ s[1] \in raw_runs
        /\ InName("2016F", raw_dataset) =>
               s[1] \notin OtherKindRuns(itemWorkflow.processing_string)}

\* C12: with a LumiList, whitelist_x_raw_x_dcs_events counts the lumi sections
\* that are in the whitelist, in the RAW dataset and in the DCS list, and so
\* exceeds neither raw_x_dcs_events nor whitelist_x_raw_events.
WhitelistRawDcsByLumi ==
    (aod_item.written /\ aod_item.whitelist_type = "lumis" /\ ~dasDown) =>
        /\ aod_item.whitelist_x_raw_x_dcs_events = EventsOfSections(WhitelistRawDcsSections)
        /\ aod_item.whitelist_x_raw_x_dcs_events <= aod_item.raw_x_dcs_events
        /\ aod_item.whitelist_x_raw_x_dcs_events <= aod_item.whitelist_x_raw_events

\* no two items of the list, nor of a list below it, have the same dataset
RECURSIVE NoDatasetTwice(_)
NoDatasetTwice(items) ==
    /\ \A i, j \in DOMAIN items : items[i].dataset = items[j].dataset => i = j
    /\ \A i \in DOMAIN items : NoDatasetTwice(items[i].output)

\* C13: a dataset already seen is skipped: in the tree of
\* get_prepid_and_dataset no two items of one list have the same dataset
\* name, whatever workflows Stats2 gives.
SeenDatasetsSkipped ==
    treeBuilt => NoDatasetTwice(aod_workflows)

\* the name fully matches '/*/*DQMresub*/*AOD', '/*/*EcalRecovery*/*AOD' or
\* '/*/*WMass*/*AOD', the campaign is 'NanoAODv6'
OnBlacklist(item) ==
    \/ /\ item.dataset[3] \in {"AOD", "MINIAOD", "NANOAOD"}
       /\ \E part \in Range(item.dataset[2]), word \in {"DQMresub", "EcalRecovery", "WMass"} :
              <<part, word>> \in Occurs
    \/ item.campaign = "NanoAODv6"

RECURSIVE NoneOnBlacklist(_)
NoneOnBlacklist(items) ==
    \A i \in DOMAIN items : ~OnBlacklist(items[i]) /\ NoneOnBlacklist(items[i].output)

\* C14: no item of the tree of get_prepid_and_dataset has a dataset name on
\* the dataset blacklist or a campaign on the campaign blacklist; nothing is
\* in the tree through a blacklisted item.
BlacklistedLeftOut ==
    treeBuilt => NoneOnBlacklist(aod_workflows)

\* Stats2 holds a blacklisted VALID AOD dataset of a workflow of the RAW dataset
\* next to one that is kept
BlacklistedLeftOutWitness ==
    /\ treeBuilt
    /\ <<RawName, "w1">> \in statsInputs
    /\ [workflow |-> "w1", dataset |-> AodResubName, Type |-> "VALID"] \in statsOutputs
    /\ [workflow |-> "w1", dataset |-> AodName, Type |-> "VALID"] \in statsOutputs
    /\ Len(aod_workflows) = 1

\* C15: with a RunWhitelist, whitelist_x_raw_x_dcs_runs is within
\* whitelist_x_raw_runs, which is within the runs of the RAW dataset;
\* whitelist_x_raw_x_dcs_runs is within raw_x_dcs_runs, which is within the
\* runs of both the RAW dataset and the DCS list; for a 2016F dataset none of
\* the three holds an exception run of the other kind.
RunWhitelistSubsets ==
    (aod_item.written /\ aod_item.whitelist_type = "runs") =>
        LET wrd == Range(aod_item.whitelist_x_raw_x_dcs_runs)
            wr == Range(aod_item.whitelist_x_raw_runs)
            rd == Range(aod_item.raw_x_dcs_runs)
            dcs == {dcs_runs[i][1] : i \in DOMAIN dcs_runs}
            others == IF <<itemWorkflow.processing_string, "HIPM">> \in Occurs
                      THEN {278769, 278801, 278802, 278803, 278804, 278805, 278808}
                      ELSE exception_2016F_HIPM_runs
        IN  /\ wrd \subseteq wr /\ wr \subseteq raw_runs
            /\ wrd \subseteq rd /\ rd \subseteq (raw_runs \cap dcs)
            /\ InName("2016F", raw_dataset) => (wrd \cup wr \cup rd) \cap others = {}

\* a HIPM item of a 2016F dataset whose RAW runs, whitelist and DCS list hold
\* both runs, the non-HIPM exception run among them
RunWhitelistSubsetsWitness ==
    /\ aod_item.written /\ aod_item.whitelist_type = "runs"
    /\ raw_dataset = RawName
    /\ itemWorkflow.processing_string = "21Feb2020_UL2016_HIPM"
    /\ raw_runs = {277932, 278769}
    /\ itemWorkflow.RunWhitelist = {277932, 278769}
    /\ Len(dcs_runs) = 2
    /\ aod_item.whitelist_x_raw_x_dcs_runs = <<277932>>

\* the key of the cache for a list of runs of the RAW dataset
KeyOfRuns(sorted) == <<"runs", raw_dataset, sorted>>

\* the consecutive chunks of at most 50 runs of a sorted list
FiftyRunChunks(sorted) ==
    [i \in 1..((Len(sorted) + 49) \div 50) |->
        SubSeq(sorted, 50 * (i - 1) + 1, IF 50 * i < Len(sorted) THEN 50 * i ELSE Len(sorted))]

\* the events DAS holds for a set of runs of the RAW dataset
RECURSIVE EventsOfRunSet(_)
EventsOfRunSet(runs) ==
    IF runs = {} THEN 0
    ELSE LET least == CHOOSE r \in runs : \A q \in runs : r <= q
             most == CHOOSE r \in runs : \A q \in runs : q <= r
             middle == (least + most) \div 2
         IN  IF least = most
             THEN (IF least \in raw_runs THEN LumiEvents(least, 1) + LumiEvents(least, 2) ELSE 0)
             ELSE EventsOfRunSet({r \in runs : r <= middle})
                  + EventsOfRunSet({r \in runs : r > middle})

\* what a chunk gives: its cached value, 0 when its query fails, else its events
ChunkGives(chunk) ==
    IF KeyOfRuns(chunk) \in DOMAIN evCacheBefore THEN evCacheBefore[KeyOfRuns(chunk)]
    ELSE IF QueryFails(dasFailing, chunk) THEN 0
    ELSE EventsOfRunSet(Range(chunk))

RECURSIVE SumOfChunks(_)
SumOfChunks(chunks) ==
    IF chunks = <<>> THEN 0 ELSE ChunkGives(Head(chunks)) + SumOfChunks(Tail(chunks))

\* C16: when the query of the whole run list fails, das_get_events_of_runs
\* returns the sum over the consecutive chunks of at most 50 runs, a chunk
\* whose query fails giving 0; no chunk is chunked again; the total is cached
\* under the key of the sorted run list, and a list whose key is cached is
\* answered from the cache without a query, in whatever order it is given.
ChunkFallback ==
    (evAsks > 0 /\ evAsked # <<>>) =>
        LET sorted == SortedRuns(Range(evAsked))
            key == KeyOfRuns(sorted)
            chunks == FiftyRunChunks(sorted)
        IN  /\ key \in DOMAIN das_events_of_runs_cache
            /\ das_events_of_runs_cache[key] = evReturn
            /\ IF key \in DOMAIN evCacheBefore
               THEN /\ evReturn = evCacheBefore[key]
                    /\ evQueries = <<>>
               ELSE IF ~QueryFails(dasFailing, sorted)
               THEN /\ evReturn = EventsOfRunSet(Range(sorted))
                    /\ evQueries = << sorted >>
               ELSE /\ evReturn = SumOfChunks(chunks)
                    /\ evQueries[1] = sorted
                    /\ Len(evQueries) <= 1 + Len(chunks)
                    /\ \A q \in 2..Len(evQueries) :
                          \E c \in DOMAIN chunks : evQueries[q] = chunks[c]

\* the query of a list of 101 runs failed, the chunk with the run 1 failed too
\* and the other two chunks gave their events
ChunkFallbackWitness ==
    /\ evAsks > 0
    /\ Len(evAsked) = 2 * ChunkSize + 1
    /\ dasFailing = "longAndFirst"
    /\ Len(evQueries) = 4
    /\ evReturn = EventsOfRunSet((ChunkSize + 1)..(2 * ChunkSize + 1))
    /\ evReturn > 0

====
